---- MODULE Spec2Model ----
(***************************************************************************)
(* Lifelog synchronisation and analysis pipeline of limitless-life-workers *)
(* (sync.ts, limitless.ts, lifelog-transformers.ts, analysis.ts, the D1    *)
(* schema).  Store statements and HTTP attempts are the atomic steps: they *)
(* are the await points of the TypeScript handlers.                        *)
(*                                                                         *)
(* Record constructors list their fields in the order in which the field   *)
(* names are first mentioned in this module.  That is the order TLC keeps  *)
(* records in, so no worker thread ever reorders a record in place while   *)
(* another one reads it.                                                   *)
(***************************************************************************)
EXTENDS Integers, Sequences, FiniteSets, TLC

VARIABLES
  entries,    \* table lifelog_entries: set of rows, primary key id
  segments,   \* table lifelog_segments: set of rows, unique index on nodeId
  segSeq,     \* AUTOINCREMENT counter of lifelog_segments.id
  analyses,   \* table lifelog_analyses: set of rows, unique (entryId, version)
  anSeq,      \* AUTOINCREMENT counter of lifelog_analyses.id
  events,     \* table analysis_events: append-only sequence of rows
  syncState,  \* table sync_state: key -> value (NullN when the key has no row)
  now,        \* wall clock (new Date()), in ticks
  env,        \* the Worker's bindings (flags, credentials)
  pages,      \* the provider's payload: sequence of pages
  sync,       \* per invocation context: the locals of syncLifelogs / fetchLifelogs
  an,         \* per invocation context: the locals of analyzeFreshEntries
  hist,       \* observations of the run: statements issued, snapshots, calls
  cron,       \* per invocation context: the locals of the scheduled handler
  slack,      \* the messages delivered to the Slack channel, in order
  schema      \* schema-init.ts: initPromise, the runs it started, the requests waiting

vars == <<entries, segments, segSeq, analyses, anSeq, events, syncState, now,
          env, pages, sync, an, hist, cron, slack, schema>>

dbVars == <<entries, segments, segSeq, analyses, anSeq, events, syncState>>

----------------------------------------------------------------------------
(* JavaScript null / undefined, for string-valued and number-valued fields *)

NullS == "<null>"
UndefS == "<undefined>"
NullN == -1
UndefN == -2

\* a ?? b, for string-valued a
CoalesceS(a, b) == IF a \in {NullS, UndefS} THEN b ELSE a

\* a ?? b, for number- or timestamp-valued a
CoalesceN(a, b) == IF a \in {NullN, UndefN} THEN b ELSE a

\* truthiness of a string-or-nullish value: if (s), while (s), !s
Truthy(s) == s \notin {NullS, UndefS, ""}

\* truthiness of a timestamp string held as a tick count
TruthyT(t) == t \notin {NullN, UndefN}

Max(a, b) == IF a >= b THEN a ELSE b
Min(a, b) == IF a <= b THEN a ELSE b

----------------------------------------------------------------------------
(* Content Normalizer: lifelog-transformers.ts                             *)

RECURSIVE JoinDot(_)
\* pathArray.join('.')
JoinDot(pathArray) ==
  IF Len(pathArray) = 0 THEN ""
  ELSE IF Len(pathArray) = 1 THEN ToString(pathArray[1])
  ELSE ToString(pathArray[1]) \o "." \o JoinDot(Tail(pathArray))

\* `${lifelogId}:${path}`
NodeIdOf(lifelogId, path) == lifelogId \o ":" \o path

\* the segment built for one node (the `current` object of flattenNodes)
SegmentOf(node, lifelogId, pathArray) ==
  [ path |-> JoinDot(pathArray),
    entryId |-> lifelogId,
    nodeId |-> NodeIdOf(lifelogId, JoinDot(pathArray)),
    nodeType |-> CoalesceS(node.type, "paragraph"),
    content |-> CoalesceS(node.content, NullS),
    startTime |-> CoalesceN(node.startTime, NullN),
    endTime |-> CoalesceN(node.endTime, NullN),
    startOffsetMs |-> CoalesceN(node.startOffsetMs, NullN),
    endOffsetMs |-> CoalesceN(node.endOffsetMs, NullN),
    speakerName |-> CoalesceS(node.speakerName, NullS),
    speakerIdentifier |-> CoalesceS(node.speakerIdentifier, NullS) ]

\* mutant: a node with empty or missing text is dropped (its children kept)
RECURSIVE FlatMapDropEmpty(_, _, _, _)
FlatMapDropEmpty(nodes, lifelogId, parents, k) ==
  IF k > Len(nodes) THEN <<>>
  ELSE LET node == nodes[k]
           pathArray == Append(parents, k - 1)
           current == IF Truthy(node.content)
                        THEN <<SegmentOf(node, lifelogId, pathArray)>> ELSE <<>>
           children == IF Len(node.children) > 0
                         THEN FlatMapDropEmpty(node.children, lifelogId, pathArray, 1)
                         ELSE <<>>
       IN  current \o children \o FlatMapDropEmpty(nodes, lifelogId, parents, k + 1)

FlattenDropEmpty(nodes, lifelogId, parents) ==
  FlatMapDropEmpty(nodes, lifelogId, parents, 1)

RECURSIVE FlatMapNodes(_, _, _, _)
\* nodes.flatMap((node, index) => [current, ...children]), from the k-th node on
FlatMapNodes(nodes, lifelogId, parents, k) ==
  IF k > Len(nodes) THEN <<>>
  ELSE LET node == nodes[k]
           pathArray == Append(parents, k - 1)
           current == SegmentOf(node, lifelogId, pathArray)
           children == IF Len(node.children) > 0
                         THEN FlatMapNodes(node.children, lifelogId, pathArray, 1)
                         ELSE <<>>
       IN  <<current>> \o children \o FlatMapNodes(nodes, lifelogId, parents, k + 1)

flattenNodes(nodes, lifelogId, parents) == FlatMapNodes(nodes, lifelogId, parents, 1)

lifelogToSegments(lifelog) ==
  IF Len(lifelog.contents) = 0 THEN <<>>
  ELSE flattenNodes(lifelog.contents, lifelog.id, <<>>)

\* toEpochMs(value): null for a missing value, else the instant
toEpochMs(value) == IF TruthyT(value) THEN value ELSE NullN

\* lifelogToEntry(lifelog); clock is the value new Date() yields when it is read
lifelogToEntry(lifelog, clock) ==
  [ startTime |-> CoalesceN(lifelog.startTime, NullN),
    endTime |-> CoalesceN(lifelog.endTime, NullN),
    id |-> lifelog.id,
    title |-> CoalesceS(lifelog.title, "Untitled entry"),
    markdown |-> CoalesceS(lifelog.markdown, NullS),
    startEpochMs |-> toEpochMs(lifelog.startTime),
    endEpochMs |-> toEpochMs(lifelog.endTime),
    isStarred |-> lifelog.isStarred,
    updatedAt |-> CoalesceN(lifelog.updatedAt,
                    CoalesceN(lifelog.endTime, CoalesceN(lifelog.startTime, clock))),
    timezone |-> IF TruthyT(lifelog.startTime) THEN "GMT" ELSE NullS ]

----------------------------------------------------------------------------
(* Fingerprinter: lifelogHashSeed (lifelog-transformers.ts), toSha1        *)

\* one "key":value member of JSON.stringify; an undefined value is omitted
JsonS(key, v) == IF v = UndefS THEN "" ELSE key \o "=" \o v \o ";"
JsonN(key, v) == IF v = UndefN THEN ""
                 ELSE key \o "=" \o (IF v = NullN THEN "null" ELSE ToString(v)) \o ";"

lifelogHashSeed(lifelog) ==
  "{" \o JsonS("id", lifelog.id) \o JsonN("updatedAt", lifelog.updatedAt)
      \o JsonS("title", lifelog.title) \o JsonN("startTime", lifelog.startTime)
      \o JsonN("endTime", lifelog.endTime) \o "}"

\* SHA-1 digest in hex, taken as collision free: one digest per input text
toSha1(input) == "sha1:" \o input

\* entry = lifelogToEntry(lifelog); entry.summaryHash = await toSha1(seed)
EntryWithHash(lifelog, clock) ==
  LET e == lifelogToEntry(lifelog, clock)
  IN  [ startTime |-> e.startTime, endTime |-> e.endTime, id |-> e.id, title |-> e.title,
        markdown |-> e.markdown, startEpochMs |-> e.startEpochMs,
        endEpochMs |-> e.endEpochMs, isStarred |-> e.isStarred,
        updatedAt |-> e.updatedAt, timezone |-> e.timezone,
        summaryHash |-> toSha1(lifelogHashSeed(lifelog)) ]

----------------------------------------------------------------------------
(* Store Gateway helpers: sync.ts                                          *)

SEGMENT_BATCH_SIZE == 9
D1_MAX_PARAMS == 100

RECURSIVE ChunkFrom(_, _, _)
\* the loop of chunkArray from offset i: result.push(values.slice(i, i + chunkSize))
ChunkFrom(values, chunkSize, i) ==
  IF i >= Len(values) THEN <<>>
  ELSE <<SubSeq(values, i + 1, Min(i + chunkSize, Len(values)))>>
         \o ChunkFrom(values, chunkSize, i + chunkSize)

\* mutant: every chunk takes one row too many (slice(i, i + chunkSize + 1))
ChunkOneMore(values, chunkSize) == ChunkFrom(values, chunkSize + 1, 0)

chunkArray(values, chunkSize) == ChunkFrom(values, chunkSize, 0)

LAST_UPDATED_KEY == "lifelog:lastUpdatedAt"
LAST_SYNC_KEY == "lifelog:lastSyncedAt"
LAST_ANALYZED_KEY == "lifelog:lastAnalyzedAt"
LAST_SYNC_WARNING_KEY == "lifelog:lastWarningAt"

SyncStateKeys ==
  {LAST_UPDATED_KEY, LAST_SYNC_KEY, LAST_ANALYZED_KEY, LAST_SYNC_WARNING_KEY}

\* getSyncStateValue(db, key): rows[0]?.value ?? null
getSyncStateValue(tbl, key) == tbl[key]

\* upsertSyncState(db, key, value): insert ... onConflictDoUpdate(target key)
upsertSyncState(tbl, key, value) == [tbl EXCEPT ![key] = value]

\* mutant: the entry insert has no conflict clause and adds a second row
InsertEntryNoConflict(tbl, entry, clock) ==
  tbl \cup {[ startTime |-> entry.startTime, endTime |-> entry.endTime, id |-> entry.id,
              title |-> entry.title, markdown |-> entry.markdown,
              startEpochMs |-> entry.startEpochMs, endEpochMs |-> entry.endEpochMs,
              isStarred |-> entry.isStarred, updatedAt |-> entry.updatedAt,
              timezone |-> entry.timezone, summaryHash |-> entry.summaryHash,
              ingestedAt |-> clock, lastAnalyzedAt |-> NullN ]}

\* mutant: INSERT OR REPLACE: the stored row is dropped and a fresh one inserted
UpsertEntryReplace(tbl, entry, clock) ==
  InsertEntryNoConflict({ r \in tbl : r.id # entry.id }, entry, clock)

\* db.insert(lifelogEntries).values(entry).onConflictDoUpdate({target: id, set: ...})
\* a new row takes the column defaults (ingested_at = CURRENT_TIMESTAMP)
UpsertEntry(tbl, entry, clock) ==
  IF \E r \in tbl : r.id = entry.id
    THEN { IF r.id = entry.id
             THEN [r EXCEPT !.title = entry.title, !.markdown = entry.markdown,
                            !.startTime = entry.startTime, !.endTime = entry.endTime,
                            !.startEpochMs = entry.startEpochMs,
                            !.endEpochMs = entry.endEpochMs,
                            !.isStarred = entry.isStarred,
                            !.updatedAt = entry.updatedAt,
                            !.timezone = entry.timezone,
                            !.summaryHash = entry.summaryHash]
             ELSE r : r \in tbl }
    ELSE tbl \cup {[ startTime |-> entry.startTime, endTime |-> entry.endTime,
                     id |-> entry.id, title |-> entry.title,
                     markdown |-> entry.markdown, startEpochMs |-> entry.startEpochMs,
                     endEpochMs |-> entry.endEpochMs, isStarred |-> entry.isStarred,
                     updatedAt |-> entry.updatedAt, timezone |-> entry.timezone,
                     summaryHash |-> entry.summaryHash, ingestedAt |-> clock,
                     lastAnalyzedAt |-> NullN ]}

\* db.delete(lifelogSegments).where(eq(lifelogSegments.entryId, id))
DeleteSegments(tbl, entryId) == { r \in tbl : r.entryId # entryId }

\* the unique index lifelog_segments_node_idx rejects the statement
SegmentConflict(tbl, batch) ==
  \/ \E k \in 1..Len(batch) : \E r \in tbl : r.nodeId = batch[k].nodeId
  \/ \E k, l \in 1..Len(batch) : k # l /\ batch[k].nodeId = batch[l].nodeId

\* the stored row of a segment value: the value plus its AUTOINCREMENT id
SegmentRow(seg, rowId) ==
  [ path |-> seg.path, entryId |-> seg.entryId, nodeId |-> seg.nodeId,
    nodeType |-> seg.nodeType, content |-> seg.content, startTime |-> seg.startTime,
    endTime |-> seg.endTime, startOffsetMs |-> seg.startOffsetMs,
    endOffsetMs |-> seg.endOffsetMs, speakerName |-> seg.speakerName,
    speakerIdentifier |-> seg.speakerIdentifier, id |-> rowId ]

\* db.insert(lifelogSegments).values(batch), when the index accepts it
InsertSegments(tbl, batch, seq) ==
  tbl \cup { SegmentRow(batch[k], seq + k) : k \in 1..Len(batch) }

----------------------------------------------------------------------------
(* Provider API: GET /lifelogs?cursor=...  (limitless.ts, types/limitless) *)

\* mutant: one attempt more than the ceiling
MaxRetriesPlusOne == 3 + 1

MAX_RETRIES == 3
RETRY_BASE_DELAY_MS == 1000

\* the token by which page i names its successor
CursorTok(i) == "c" \o ToString(i)

\* the page the provider serves for a cursor parameter (none: the first page)
PageFor(pgs, cursor) ==
  IF ~Truthy(cursor) THEN pgs[1]
  ELSE pgs[1 + (CHOOSE i \in 1..Len(pgs) : CursorTok(i) = cursor)]

\* response.ok
ResponseOk(status) == status >= 200 /\ status < 300

\* shouldRetryStatus(status)
shouldRetryStatus(status) == status >= 500 /\ status < 600

\* RETRY_BASE_DELAY_MS * Math.pow(2, attempt)
RetryDelay(attempt) == RETRY_BASE_DELAY_MS * (2 ^ attempt)

\* a transport-level exception of fetch(), written as status 0
TransportError == 0

\* the Error an attempt leaves in lastError
AttemptError(status) ==
  IF status = TransportError THEN "fetch failed"
  ELSE "Limitless API error: " \o ToString(status)

----------------------------------------------------------------------------
(* Sync Controller: syncLifelogs (sync.ts)                                 *)

HOURS_BACKFILL == 6
HOURS_DEFAULT_WINDOW == 168

\* mutant: the start bound is `since` itself
BackfillNoMargin(since) == since

\* backfillWindow(since): six hours earlier
backfillWindow(since) == since - HOURS_BACKFILL

\* getDefaultStartDate(): seven days before now
getDefaultStartDate(clock) == clock - HOURS_DEFAULT_WINDOW

NoPage == [lifelogs |-> <<>>, nextCursor |-> UndefS]

SyncIdle ==
  [ b |-> 0, i |-> 0, cursor |-> UndefS, attempt |-> 0, since |-> NullN, pc |-> "idle",
    runs |-> 0, processed |-> 0, lastUpdatedAt |-> NullN, attempted |-> FALSE,
    response |-> NoPage, entryUpdatedAt |-> NullN, segs |-> <<>>, inserted |-> <<>>,
    calls |-> <<>>, http |-> <<>>, sleeps |-> <<>>, error |-> "",
    result |-> [processed |-> 0, lastUpdatedAt |-> NullN] ]

\* the head of the do-loop body: attempted = true; fetchLifelogs(env, {cursor, start})
EnterFetch(s) ==
  [s EXCEPT !.pc = "fetch", !.attempted = TRUE, !.attempt = 0, !.http = <<>>,
            !.sleeps = <<>>, !.response = NoPage, !.i = 0,
            !.calls = Append(@, [cursor |-> s.cursor,
                                 start |-> IF TruthyT(s.since)
                                             THEN backfillWindow(s.since)
                                             ELSE UndefN])]

\* mutant: the loop body runs once (if instead of while)
AfterPageOnce(s) ==
  [s EXCEPT !.cursor = CoalesceS(s.response.nextCursor, UndefS), !.response = NoPage,
            !.i = 0,
            !.pc = IF TruthyT(s.lastUpdatedAt) THEN "saveUpdated" ELSE "saveSynced"]

\* mutant: the pass ends with the loop when no item carried an updatedAt
AfterPageNoAnchor(s) ==
  LET c == CoalesceS(s.response.nextCursor, UndefS)
  IN  IF Truthy(c)
        THEN EnterFetch([s EXCEPT !.cursor = c])
        ELSE [s EXCEPT !.cursor = c, !.response = NoPage, !.i = 0,
                       !.pc = IF TruthyT(s.lastUpdatedAt) THEN "saveUpdated" ELSE "done"]

\* cursor = response.meta.lifelogs?.nextCursor ?? undefined; while (cursor)
AfterPage(s) ==
  LET c == CoalesceS(s.response.nextCursor, UndefS)
  IN  IF Truthy(c)
        THEN EnterFetch([s EXCEPT !.cursor = c])
        ELSE [s EXCEPT !.cursor = c, !.response = NoPage, !.i = 0,
                       !.pc = IF TruthyT(s.lastUpdatedAt) THEN "saveUpdated"
                              ELSE "saveSynced"]

\* mutant: the updatedAt of the item processed last wins
ItemDoneLastWins(s) ==
  LET t == [s EXCEPT !.processed = @ + 1, !.lastUpdatedAt = s.entryUpdatedAt, !.b = 0]
  IN  IF s.i < Len(s.response.lifelogs)
        THEN [t EXCEPT !.pc = "upsert", !.i = @ + 1]
        ELSE AfterPage(t)

\* the tail of the for-loop body: processed += 1; track the latest updatedAt
ItemDone(s) ==
  LET u == s.entryUpdatedAt
      t == [s EXCEPT !.processed = @ + 1,
                     !.lastUpdatedAt =
                        IF ~TruthyT(@) \/ (TruthyT(u) /\ u > @)
                          THEN CoalesceN(u, @) ELSE @,
                     !.b = 0]
  IN  IF s.i < Len(s.response.lifelogs)
        THEN [t EXCEPT !.pc = "upsert", !.i = @ + 1]
        ELSE AfterPage(t)

\* a statement of the pass threw: the error leaves syncLifelogs
SyncThrow(s, msg) == [s EXCEPT !.pc = "failed", !.error = msg]

\* mutant: no flag and no missing credential stops the pass
SyncNeverSkipped(bindings) == FALSE

\* lines 26-35: the disable flag is set, the credential is 'skip' or is missing
SyncSkipped(bindings) ==
  \/ bindings.DISABLE_LIMITLESS_SYNC = "1"
  \/ bindings.LIMITLESS_API_KEY = "skip"
  \/ ~Truthy(bindings.LIMITLESS_API_KEY)

\* lines 26-50: the flag and credential guards, the stored cursor, the window
SyncStart(p, fullRefresh, maxRuns) ==
  /\ sync[p].pc = "idle"
  /\ sync[p].runs < maxRuns
  /\ LET s0 == [SyncIdle EXCEPT !.runs = sync[p].runs + 1]
         storedSince == getSyncStateValue(syncState, LAST_UPDATED_KEY)
         since == IF fullRefresh THEN NullN
                  ELSE IF TruthyT(storedSince) THEN storedSince
                  ELSE getDefaultStartDate(now)
     IN  sync' = [sync EXCEPT ![p] =
           IF SyncSkipped(env)
             THEN [s0 EXCEPT !.pc = "done"]
             ELSE EnterFetch([s0 EXCEPT !.since = since])]
  /\ UNCHANGED <<dbVars, now, env, pages, an, hist, cron, slack, schema>>

\* one pass of the retry loop of fetchLifelogs: one HTTP request and its handling
HttpAttempt(p, status) ==
  LET s == sync[p]
      last == s.attempt = MAX_RETRIES - 1
      t == [s EXCEPT !.http = Append(@, status)]
  IN  /\ s.pc = "fetch"
      /\ sync' = [sync EXCEPT ![p] =
           IF status # TransportError /\ ResponseOk(status)
             THEN LET r == [t EXCEPT !.response = PageFor(pages, s.cursor)]
                  IN  IF Len(r.response.lifelogs) > 0
                        THEN [r EXCEPT !.pc = "upsert", !.i = 1]
                        ELSE AfterPage(r)
           ELSE IF status # TransportError /\ shouldRetryStatus(status) /\ ~last
             THEN [t EXCEPT !.pc = "sleep"]
           \* a throw inside the try block lands in its own catch block
           ELSE IF last
             THEN SyncThrow(t, AttemptError(status))
             ELSE [t EXCEPT !.pc = "sleep"]]
      /\ UNCHANGED <<dbVars, now, env, pages, an, hist, cron, slack, schema>>

\* await sleep(delay), then the next pass of the retry loop
FetchSleep(p) ==
  /\ sync[p].pc = "sleep"
  /\ sync' = [sync EXCEPT ![p] = [@ EXCEPT !.pc = "fetch", !.attempt = @ + 1,
                                            !.sleeps = Append(@, RetryDelay(sync[p].attempt))]]
  /\ UNCHANGED <<dbVars, now, env, pages, an, hist, cron, slack, schema>>

\* lines 61-87: build the entry, upsert it, flatten its contents
SyncUpsertEntry(p, fail) ==
  LET s == sync[p]
      lifelog == s.response.lifelogs[s.i]
      entry == EntryWithHash(lifelog, now)
      segs == lifelogToSegments(lifelog)
      t == [s EXCEPT !.entryUpdatedAt = entry.updatedAt, !.segs = segs]
  IN  /\ s.pc = "upsert"
      /\ IF fail
           THEN /\ sync' = [sync EXCEPT ![p] = SyncThrow(s, "D1_ERROR")]
                /\ UNCHANGED entries
           ELSE /\ entries' = UpsertEntry(entries, entry, now)
                /\ sync' = [sync EXCEPT ![p] =
                     IF Len(segs) > 0 THEN [t EXCEPT !.pc = "delete"] ELSE ItemDone(t)]
      /\ UNCHANGED <<segments, segSeq, analyses, anSeq, events, syncState, now, env,
                     pages, an, hist, cron, slack, schema>>

\* line 89: delete the entry's segments, then chunk the new ones
SyncDeleteSegments(p, fail) ==
  LET s == sync[p]
  IN  /\ s.pc = "delete"
      /\ IF fail
           THEN /\ sync' = [sync EXCEPT ![p] = SyncThrow(s, "D1_ERROR")]
                /\ UNCHANGED segments
           ELSE /\ segments' = DeleteSegments(segments, s.response.lifelogs[s.i].id)
                /\ sync' = [sync EXCEPT ![p] = [s EXCEPT !.pc = "insert", !.b = 1,
                                                         !.inserted = <<>>]]
      /\ UNCHANGED <<entries, segSeq, analyses, anSeq, events, syncState, now, env,
                     pages, an, hist, cron, slack, schema>>

\* lines 91-93: one db.insert(lifelogSegments).values(batch)
SyncInsertBatch(p, fail) ==
  LET s == sync[p]
      batches == chunkArray(s.segs, SEGMENT_BATCH_SIZE)
      batch == batches[s.b]
  IN  /\ s.pc = "insert"
      /\ IF fail \/ SegmentConflict(segments, batch)
           THEN /\ sync' = [sync EXCEPT ![p] =
                     SyncThrow(s, IF fail THEN "D1_ERROR" ELSE "UNIQUE constraint failed")]
                /\ UNCHANGED <<segments, segSeq>>
           ELSE /\ segments' = InsertSegments(segments, batch, segSeq)
                /\ segSeq' = segSeq + Len(batch)
                /\ sync' = [sync EXCEPT ![p] =
                     LET t == [s EXCEPT !.inserted = Append(@, batch)]
                     IN  IF s.b < Len(batches) THEN [t EXCEPT !.b = @ + 1]
                         ELSE ItemDone(t)]
      /\ UNCHANGED <<entries, analyses, anSeq, events, syncState, now, env, pages, an,
                     hist, cron, slack, schema>>

\* mutant: the value is persisted before the statement reports its failure
SyncSaveUpdatedThenThrow(p, fail) ==
  LET s == sync[p]
  IN  /\ s.pc = "saveUpdated"
      /\ syncState' = upsertSyncState(syncState, LAST_UPDATED_KEY, s.lastUpdatedAt)
      /\ sync' = [sync EXCEPT ![p] =
           IF fail THEN SyncThrow(s, "D1_ERROR") ELSE [s EXCEPT !.pc = "saveSynced"]]
      /\ UNCHANGED <<entries, segments, segSeq, analyses, anSeq, events, now, env,
                     pages, an, hist, cron, slack, schema>>

\* lines 108-110: persist the latest updatedAt seen
SyncSaveUpdated(p, fail) ==
  LET s == sync[p]
  IN  /\ s.pc = "saveUpdated"
      /\ IF fail
           THEN /\ sync' = [sync EXCEPT ![p] = SyncThrow(s, "D1_ERROR")]
                /\ UNCHANGED syncState
           ELSE /\ syncState' = upsertSyncState(syncState, LAST_UPDATED_KEY, s.lastUpdatedAt)
                /\ sync' = [sync EXCEPT ![p] = [s EXCEPT !.pc = "saveSynced"]]
      /\ UNCHANGED <<entries, segments, segSeq, analyses, anSeq, events, now, env,
                     pages, an, hist, cron, slack, schema>>

\* a Segment row without its surrogate id
SegmentValues(r) ==
  [ path |-> r.path, entryId |-> r.entryId, nodeId |-> r.nodeId,
    nodeType |-> r.nodeType, content |-> r.content, startTime |-> r.startTime,
    endTime |-> r.endTime, startOffsetMs |-> r.startOffsetMs,
    endOffsetMs |-> r.endOffsetMs, speakerName |-> r.speakerName,
    speakerIdentifier |-> r.speakerIdentifier ]

\* the rows of a pass as the claims compare them: entries, and segments by value
Snapshot ==
  [ entries |-> entries,
    segments |-> { SegmentValues(r) : r \in segments },
    segmentRows |-> Cardinality(segments) ]

\* lines 111-115: persist lastSyncedAt and return the statistics
SyncSaveSynced(p, fail) ==
  LET s == sync[p]
  IN  /\ s.pc = "saveSynced"
      /\ IF fail
           THEN /\ sync' = [sync EXCEPT ![p] = SyncThrow(s, "D1_ERROR")]
                /\ UNCHANGED <<syncState, hist>>
           ELSE /\ syncState' = IF s.attempted
                                  THEN upsertSyncState(syncState, LAST_SYNC_KEY, now)
                                  ELSE syncState
                /\ sync' = [sync EXCEPT ![p] =
                     [s EXCEPT !.pc = "done",
                               !.result = [processed |-> s.processed,
                                           lastUpdatedAt |-> s.lastUpdatedAt]]]
                /\ hist' = [hist EXCEPT !.passes = Append(@, Snapshot)]
      /\ UNCHANGED <<entries, segments, segSeq, analyses, anSeq, events, now, env,
                     pages, an, cron, slack, schema>>

\* the invocation is over; its context may serve the next one
SyncReturn(p) ==
  /\ sync[p].pc \in {"done", "failed"}
  /\ sync' = [sync EXCEPT ![p] = [@ EXCEPT !.pc = "idle"]]
  /\ UNCHANGED <<dbVars, now, env, pages, an, hist, cron, slack, schema>>

\* time passes
Tick(maxClock) ==
  /\ now < maxClock
  /\ now' = now + 1
  /\ UNCHANGED <<dbVars, env, pages, sync, an, hist, cron, slack, schema>>

----------------------------------------------------------------------------
(* Analysis Orchestrator: analysis.ts.  A text is a sequence of tokens:    *)
(* "{" and "}", "k" (the members of a JSON object), "p" (prose), " " and   *)
(* "\n" (white space).                                                     *)

MODEL == "@cf/openai/gpt-oss-120b"
GEMINI_MODEL == "gemini-2.0-flash"
ANALYSIS_VERSION == "v1"

\* the value tryParseAnalysisJson returns when nothing parsed
NoJson == <<>>

WhiteSpace == {" ", "\n"}

RECURSIVE RemoveWs(_)
RemoveWs(text) ==
  IF Len(text) = 0 THEN <<>>
  ELSE IF text[1] \in WhiteSpace THEN RemoveWs(Tail(text))
  ELSE <<text[1]>> \o RemoveWs(Tail(text))

\* the documents JSON.parse accepts, white space aside: {} and {members}
JsonDocs == { <<"{", "}">>, <<"{", "k", "}">> }

\* JSON.parse(text) does not throw
JsonOk(text) == RemoveWs(text) \in JsonDocs

\* JSON.stringify(JSON.parse(text))
JsonCanonical(text) == RemoveWs(text)

RECURSIVE Trim(_)
\* raw.trim()
Trim(text) ==
  IF Len(text) = 0 THEN text
  ELSE IF text[1] \in WhiteSpace THEN Trim(Tail(text))
  ELSE IF text[Len(text)] \in WhiteSpace THEN Trim(SubSeq(text, 1, Len(text) - 1))
  ELSE text

\* indexOf / lastIndexOf, 1-based, 0 when the token does not occur
IndexOf(text, tok) ==
  IF \E k \in 1..Len(text) : text[k] = tok
    THEN CHOOSE k \in 1..Len(text) : text[k] = tok /\ \A l \in 1..(k - 1) : text[l] # tok
    ELSE 0

LastIndexOf(text, tok) ==
  IF \E k \in 1..Len(text) : text[k] = tok
    THEN CHOOSE k \in 1..Len(text) :
           text[k] = tok /\ \A l \in (k + 1)..Len(text) : text[l] # tok
    ELSE 0

\* tryParseAnalysisJson(raw): strict parse, else the text from the first "{" to the
\* last "}"
tryParseAnalysisJson(raw) ==
  IF JsonOk(raw) THEN JsonCanonical(raw)
  ELSE LET trimmed == Trim(raw)
           start == IndexOf(trimmed, "{")
           end == LastIndexOf(trimmed, "}")
       IN  IF start = 0 \/ end <= start THEN NoJson
           ELSE IF JsonOk(SubSeq(trimmed, start, end))
                  THEN JsonCanonical(SubSeq(trimmed, start, end))
                  ELSE NoJson

RECURSIVE JoinLines(_)
\* chunks.join('\n')
JoinLines(chunks) ==
  IF Len(chunks) = 0 THEN <<>>
  ELSE IF Len(chunks) = 1 THEN chunks[1]
  ELSE chunks[1] \o <<"\n">> \o JoinLines(Tail(chunks))

\* extractResponsePayload(result): a result is a string, an envelope with a string
\* response, an envelope with output_text chunks or output[].content[].text chunks,
\* or anything else
extractResponsePayload(result) ==
  IF result.kind \in {"string", "response"} THEN result.chunks[1]
  ELSE IF result.kind \in {"output_text", "output"} /\ Len(result.chunks) > 0
    THEN JoinLines(result.chunks)
  ELSE <<"{", "}">>

\* the message of the SyntaxError ensureAnalysisJson throws, with its preview
ParseFailure(raw) == <<"Model response is not valid JSON:">> \o raw

\* the messages of the errors env.AI.run throws: the provider's rate-limit error
\* (code 1031), any other error
RateLimitMessage == <<"AiError:", "1031", "rate limited">>
OtherMessage == <<"AiError:", "5007", "no such model">>

\* mutant: a rate-limit error is handled like any other error
NeverRateLimit(errorMessage) == FALSE

\* errorMessage.includes('1031')
isRateLimit(errorMessage) == \E k \in 1..Len(errorMessage) : errorMessage[k] = "1031"

\* mutant: modelUsed stays the primary model
AlwaysPrimaryModel(stage) == MODEL

\* modelUsed after the stage that produced the accepted payload
ModelUsed(stage) == IF stage = "secondary" THEN GEMINI_MODEL ELSE MODEL

\* the joined Analysis row of an entry: the row of (entry id, current version)
AnalysisRows(tbl, entryId) ==
  { a \in tbl : a.entryId = entryId /\ a.version = ANALYSIS_VERSION }

\* mutant: only a missing Analysis row makes an entry a candidate
NeedsAnalysisNoHash(tbl, entry) == AnalysisRows(tbl, entry.id) = {}

\* needsAnalysis: or(isNull(lifelogAnalyses.id), ne(payloadHash, summaryHash)); a
\* comparison with NULL is not true
needsAnalysis(tbl, entry) ==
  \/ AnalysisRows(tbl, entry.id) = {}
  \/ \E a \in AnalysisRows(tbl, entry.id) :
       /\ a.payloadHash # NullS
       /\ entry.summaryHash # NullS
       /\ a.payloadHash # entry.summaryHash

\* scopedEntryIds: entryIds?.filter((id) => Boolean(id?.trim())) ?? []
ScopedEntryIds(entryIds) == { entryIds[k] : k \in 1..Len(entryIds) } \ {"", " ", UndefS}

\* mutant: the force flag is ignored, the staleness filter always applies
WhereClauseNoForce(tbl, entry, scoped, force) ==
  IF scoped # {} THEN entry.id \in scoped /\ needsAnalysis(tbl, entry)
  ELSE needsAnalysis(tbl, entry)

\* whereClause of the candidate query
WhereClause(tbl, entry, scoped, force) ==
  IF scoped # {}
    THEN IF force THEN entry.id \in scoped
         ELSE entry.id \in scoped /\ needsAnalysis(tbl, entry)
    ELSE needsAnalysis(tbl, entry)

\* the columns the candidate query selects
CandidateOf(e) ==
  [ startTime |-> e.startTime, endTime |-> e.endTime, id |-> e.id, title |-> e.title,
    markdown |-> e.markdown, summaryHash |-> e.summaryHash ]

\* .where(whereClause).orderBy(desc(startTime)).limit(fetchLimit): the result lists
\* the matching rows by descending startTime (NULL last, ties in any order), cut at
\* fetchLimit
Candidates(ents, tbl, scoped, force, limit) ==
  LET match == { e \in ents : WhereClause(tbl, e, scoped, force) }
      fetchLimit == IF scoped # {} THEN Cardinality(scoped) ELSE limit
      n == Min(fetchLimit, Cardinality(match))
  IN  { c \in [1..n -> match] :
          /\ \A k, l \in 1..n : k < l => c[k] # c[l] /\ c[k].startTime >= c[l].startTime
          /\ \A e \in match : (\A k \in 1..n : c[k] # e) =>
               \A k \in 1..n : c[k].startTime >= e.startTime }

\* mutant: the insert has no conflict clause and adds a row
InsertAnalysisNoConflict(tbl, entryId, modelUsed, hash, json, clock, seq) ==
  tbl \cup {[ entryId |-> entryId, id |-> seq + 1, version |-> ANALYSIS_VERSION,
              payloadHash |-> hash, model |-> modelUsed, insightsJson |-> json,
              createdAt |-> clock ]}

\* db.insert(lifelogAnalyses).values(...).onConflictDoUpdate({target: [entryId,
\* version], set: {model, payloadHash, insightsJson, createdAt}}); an undefined
\* payloadHash is left out of the statement
UpsertAnalysis(tbl, entryId, modelUsed, hash, json, clock, seq) ==
  IF AnalysisRows(tbl, entryId) # {}
    THEN { IF a \in AnalysisRows(tbl, entryId)
             THEN [a EXCEPT !.model = modelUsed,
                            !.payloadHash = IF hash = NullS THEN @ ELSE hash,
                            !.insightsJson = json, !.createdAt = clock]
             ELSE a : a \in tbl }
    ELSE tbl \cup {[ entryId |-> entryId, id |-> seq + 1, version |-> ANALYSIS_VERSION,
                     payloadHash |-> hash, model |-> modelUsed, insightsJson |-> json,
                     createdAt |-> clock ]}

\* mutant: the event is not written
LogNothing(log, entryId, status, details) == log

\* logAnalysisEvent(db, event)
logAnalysisEvent(log, entryId, status, details) ==
  Append(log, [entryId |-> entryId, status |-> status, details |-> details])

AnIdle ==
  [ i |-> 0, pc |-> "idle", runs |-> 0, result |-> <<>>, errorMessage |-> <<>>,
    modelUsed |-> MODEL, opts |-> [entryIds |-> <<>>, force |-> FALSE, limit |-> 2],
    cands |-> <<>>, serialized |-> <<>>, parsed |-> NoJson, trail |-> <<>>,
    called |-> {}, raisedAt |-> 0, analyzedIds |-> <<>>, skippedIds |-> <<>> ]

\* the loop moves to candidate i + 1, or ends
NextCandidate(a) ==
  LET b == [a EXCEPT !.serialized = <<>>, !.parsed = NoJson, !.modelUsed = MODEL]
  IN  IF a.i < Len(a.cands)
        THEN [b EXCEPT !.pc = "primary", !.i = @ + 1, !.trail = <<>>]
        ELSE [b EXCEPT !.pc = IF Len(a.analyzedIds) > 0 THEN "saveAnalyzed" ELSE "done",
                       !.result = a.analyzedIds]

\* the catch block of the loop body, up to its store statement
Caught(a, errorMessage) ==
  IF isRateLimit(errorMessage)
    THEN [a EXCEPT !.skippedIds = Append(@, a.cands[a.i].id),
                   !.errorMessage = errorMessage,
                   !.pc = IF Len(a.analyzedIds) > 0 THEN "saveAnalyzed" ELSE "done",
                   !.result = a.analyzedIds]
    ELSE [a EXCEPT !.pc = "logError", !.errorMessage = errorMessage]

\* lines 227-272: the guards and the candidate query
AnStart(q, opts, maxRuns) ==
  /\ an[q].pc = "idle"
  /\ an[q].runs < maxRuns
  /\ LET a0 == [AnIdle EXCEPT !.runs = an[q].runs + 1, !.opts = opts]
     IN  IF ~env.AI \/ env.DISABLE_WORKERS_AI = "1"
           THEN an' = [an EXCEPT ![q] = [a0 EXCEPT !.pc = "done"]]
           ELSE \E c \in Candidates(entries, analyses, ScopedEntryIds(opts.entryIds),
                                    opts.force, opts.limit) :
                  an' = [an EXCEPT ![q] =
                    NextCandidate([a0 EXCEPT
                      !.cands = [k \in 1..Len(c) |-> CandidateOf(c[k])]])]
  /\ UNCHANGED <<dbVars, now, env, pages, sync, hist, cron, slack, schema>>

\* mutant: no repair call; a primary response that does not parse goes straight
\* to the secondary provider
AfterRunNoRepair(a, stage, result) ==
  LET text == extractResponsePayload(result)
      parsed == tryParseAnalysisJson(text)
      b == [a EXCEPT !.serialized = text, !.parsed = parsed,
                     !.trail = Append(@, [stage |-> stage, parsed |-> parsed # NoJson,
                                          threw |-> FALSE]),
                     !.called = @ \cup {a.cands[a.i].id}]
  IN  IF parsed # NoJson THEN [b EXCEPT !.pc = "upsert", !.modelUsed = ModelUsed(stage)]
      ELSE IF Truthy(env.GEMINI_API_KEY) THEN [b EXCEPT !.pc = "secondary"]
      ELSE Caught(b, ParseFailure(text))

\* one env.AI.run call returned `result`: extract and parse its text
AfterRun(a, stage, result) ==
  LET text == extractResponsePayload(result)
      parsed == tryParseAnalysisJson(text)
      b == [a EXCEPT !.serialized = text, !.parsed = parsed,
                     !.trail = Append(@, [stage |-> stage, parsed |-> parsed # NoJson,
                                          threw |-> FALSE]),
                     !.called = @ \cup {a.cands[a.i].id}]
  IN  IF parsed # NoJson THEN [b EXCEPT !.pc = "upsert", !.modelUsed = ModelUsed(stage)]
      ELSE IF stage = "primary" THEN [b EXCEPT !.pc = "repair"]
      ELSE IF Truthy(env.GEMINI_API_KEY) THEN [b EXCEPT !.pc = "secondary"]
      ELSE Caught(b, ParseFailure(text))

\* one env.AI.run call threw
AfterThrow(a, stage, errorMessage) ==
  Caught([a EXCEPT !.called = @ \cup {a.cands[a.i].id},
                   !.trail = Append(@, [stage |-> stage, parsed |-> FALSE,
                                        threw |-> TRUE]),
                   !.raisedAt = IF errorMessage = RateLimitMessage THEN a.i ELSE @],
         errorMessage)

\* lines 285-322: the delay, the segment query, the prompt and the primary call
AnPrimary(q, outcome) ==
  /\ an[q].pc = "primary"
  /\ an' = [an EXCEPT ![q] =
       IF outcome.throws THEN AfterThrow(an[q], "primary", outcome.message)
       ELSE AfterRun(an[q], "primary", outcome.result)]
  /\ UNCHANGED <<dbVars, now, env, pages, sync, hist, cron, slack, schema>>

\* lines 325-332: the repair call
AnRepair(q, outcome) ==
  /\ an[q].pc = "repair"
  /\ an' = [an EXCEPT ![q] =
       IF outcome.throws THEN AfterThrow(an[q], "repair", outcome.message)
       ELSE AfterRun(an[q], "repair", outcome.result)]
  /\ UNCHANGED <<dbVars, now, env, pages, sync, hist, cron, slack, schema>>

\* lines 334-342: analyzeWithGeminiFallback returned the parse of `text`, or null
\* (an HTTP error, no text, an exception: text = <<>>), then ensureAnalysisJson
AnSecondary(q, text) ==
  LET a == an[q]
      geminiParsed == IF Len(text) = 0 THEN NoJson ELSE tryParseAnalysisJson(text)
      b == [a EXCEPT !.trail = Append(@, [stage |-> "secondary",
                                          parsed |-> geminiParsed # NoJson,
                                          threw |-> FALSE]),
                     !.called = @ \cup {a.cands[a.i].id}]
  IN  /\ a.pc = "secondary"
      /\ an' = [an EXCEPT ![q] =
           IF geminiParsed # NoJson
             THEN [b EXCEPT !.pc = "upsert", !.parsed = geminiParsed,
                            !.modelUsed = ModelUsed("secondary")]
             ELSE Caught(b, ParseFailure(a.serialized))]
      /\ UNCHANGED <<dbVars, now, env, pages, sync, hist, cron, slack, schema>>

\* mutant: the row is pinned to the fingerprint the entry has when the row is written
AnUpsertCurrentHash(q) ==
  LET a == an[q]
      entry == a.cands[a.i]
      current == CHOOSE e \in entries : e.id = entry.id
  IN  /\ a.pc = "upsert"
      /\ analyses' = UpsertAnalysis(analyses, entry.id, a.modelUsed, current.summaryHash,
                                    a.parsed, now, anSeq)
      /\ anSeq' = IF AnalysisRows(analyses, entry.id) = {} THEN anSeq + 1 ELSE anSeq
      /\ an' = [an EXCEPT ![q] = [a EXCEPT !.pc = "stamp"]]
      /\ UNCHANGED <<entries, segments, segSeq, events, syncState, now, env, pages,
                     sync, hist, cron, slack, schema>>

\* lines 344-361: upsert the Analysis row
AnUpsert(q) ==
  LET a == an[q]
      entry == a.cands[a.i]
  IN  /\ a.pc = "upsert"
      /\ analyses' = UpsertAnalysis(analyses, entry.id, a.modelUsed, entry.summaryHash,
                                    a.parsed, now, anSeq)
      /\ anSeq' = IF AnalysisRows(analyses, entry.id) = {} THEN anSeq + 1 ELSE anSeq
      /\ an' = [an EXCEPT ![q] = [a EXCEPT !.pc = "stamp"]]
      /\ UNCHANGED <<entries, segments, segSeq, events, syncState, now, env, pages,
                     sync, hist, cron, slack, schema>>

\* lines 363-366: stamp the entry's lastAnalyzedAt
AnStamp(q) ==
  LET a == an[q]
  IN  /\ a.pc = "stamp"
      /\ entries' = { IF e.id = a.cands[a.i].id THEN [e EXCEPT !.lastAnalyzedAt = now]
                      ELSE e : e \in entries }
      /\ an' = [an EXCEPT ![q] = [a EXCEPT !.pc = "logSuccess"]]
      /\ UNCHANGED <<segments, segSeq, analyses, anSeq, events, syncState, now, env,
                     pages, sync, hist, cron, slack, schema>>

\* lines 368-374: the success event; analyzedIds.push(entry.id)
AnLogSuccess(q) ==
  LET a == an[q]
  IN  /\ a.pc = "logSuccess"
      /\ events' = logAnalysisEvent(events, a.cands[a.i].id, "success",
                                    <<"Analysis stored", a.modelUsed>>)
      /\ an' = [an EXCEPT ![q] =
           NextCandidate([a EXCEPT !.analyzedIds = Append(@, a.cands[a.i].id)])]
      /\ UNCHANGED <<entries, segments, segSeq, analyses, anSeq, syncState, now, env,
                     pages, sync, hist, cron, slack, schema>>

\* lines 386-391: the error event
AnLogError(q) ==
  LET a == an[q]
  IN  /\ a.pc = "logError"
      /\ events' = logAnalysisEvent(events, a.cands[a.i].id, "error", a.errorMessage)
      /\ an' = [an EXCEPT ![q] = NextCandidate(a)]
      /\ UNCHANGED <<entries, segments, segSeq, analyses, anSeq, syncState, now, env,
                     pages, sync, hist, cron, slack, schema>>

\* lines 399-403: persist lifelog:lastAnalyzedAt and return analyzedIds
AnSaveAnalyzed(q) ==
  /\ an[q].pc = "saveAnalyzed"
  /\ syncState' = upsertSyncState(syncState, LAST_ANALYZED_KEY, now)
  /\ an' = [an EXCEPT ![q] = [@ EXCEPT !.pc = "done"]]
  /\ UNCHANGED <<entries, segments, segSeq, analyses, anSeq, events, now, env, pages,
                 sync, hist, cron, slack, schema>>

\* the invocation is over; its context may serve the next one
AnReturn(q) ==
  /\ an[q].pc = "done"
  /\ an' = [an EXCEPT ![q] = [@ EXCEPT !.pc = "idle"]]
  /\ UNCHANGED <<dbVars, now, env, pages, sync, hist, cron, slack, schema>>

----------------------------------------------------------------------------
(* Scheduled handler: scheduled, maybeWarnStaleSync (index.tsx)            *)

\* the locals of a scheduled invocation; stats is TRUE once syncLifelogs returned
CronIdle ==
  [ pc |-> "idle", runs |-> 0, stats |-> FALSE, lastUpdatedBefore |-> NullN,
    lastUpdatedAfter |-> NullN, lastWarningAt |-> NullN ]

----------------------------------------------------------------------------
(* Inputs: content trees, lifelogs, provider payloads                      *)

Epoch0 == 1000

Node(type, content, children) ==
  [ type |-> type, content |-> content, startTime |-> UndefN, endTime |-> UndefN,
    startOffsetMs |-> UndefN, endOffsetMs |-> UndefN, speakerName |-> UndefS,
    speakerIdentifier |-> UndefS, children |-> children ]

Lifelog(id, updatedAt, startTime, endTime, contents) ==
  [ startTime |-> startTime, endTime |-> endTime, contents |-> contents, id |-> id,
    title |-> "t", markdown |-> UndefS, isStarred |-> FALSE, updatedAt |-> updatedAt ]

\* the kinds of node of the enumerated trees: a heading without text, a paragraph
NodeKinds == { [type |-> "heading", content |-> ""], [type |-> "p", content |-> "x"] }

RECURSIVE ForestsOf(_)
\* every ordered forest of exactly n nodes
ForestsOf(n) ==
  IF n = 0 THEN { <<>> }
  ELSE UNION { { <<Node(k.type, k.content, c)>> \o rest :
                   k \in NodeKinds, c \in ForestsOf(m), rest \in ForestsOf(n - 1 - m) } :
               m \in 0..(n - 1) }

\* a flat transcript of n paragraphs
FlatForest(n) == [ k \in 1..n |-> Node("p", "x", <<>>) ]

MaxNodes == 3
MaxFlat == 27
MaxPages == 3

\* the cursors a page may return: its successor's token, or a terminal value
NextCursors(i, n) == (IF i < n THEN {CursorTok(i)} ELSE {}) \cup {NullS, UndefS, ""}

\* payloads of one page holding one lifelog
OnePage(lifelogs) == { << [lifelogs |-> <<l>>, nextCursor |-> NullS] >> : l \in lifelogs }

TreePayloads ==
  OnePage({ Lifelog("e1", Epoch0, Epoch0, Epoch0, f) :
              f \in UNION { ForestsOf(n) : n \in 0..MaxNodes } })

FlatPayloads ==
  OnePage({ Lifelog("e1", Epoch0, Epoch0, Epoch0, FlatForest(n)) : n \in 0..MaxFlat })

\* page i holds no lifelog or the lifelog "p<i>"
PageChoices(i, n) ==
  { [lifelogs |-> ls, nextCursor |-> c] :
      ls \in { <<>>, << Lifelog("p" \o ToString(i), Epoch0 + i, Epoch0, Epoch0,
                                <<Node("p", "x", <<>>)>>) >> },
      c \in NextCursors(i, n) }

PagedPayloads ==
  UNION { { pgs \in [1..n -> UNION { PageChoices(i, n) : i \in 1..n }] :
              \A i \in 1..n : pgs[i] \in PageChoices(i, n) } : n \in 1..MaxPages }

Procs == {"A", "B"}

EnvOn ==
  [ DISABLE_LIMITLESS_SYNC |-> UndefS, LIMITLESS_API_KEY |-> "key", AI |-> TRUE,
    DISABLE_WORKERS_AI |-> UndefS, GEMINI_API_KEY |-> "gkey" ]

----------------------------------------------------------------------------
(* Schema initialisation: ensureSchema (schema-init.ts), withDb (db.ts)    *)

\* the number of SCHEMA_STATEMENTS
SCHEMA_STATEMENTS == 9

\* a request that has not entered withDb
CallerIdle == [at |-> "idle", promise |-> 0, requests |-> 0]

\* the module state of schema-init.ts in one isolate and the requests it serves:
\* initPromise is null (0) or the index of a promise; a promise is one run of the
\* statements, with the number of statements done and how it settled
SchemaIdle ==
  [ initPromise |-> 0, promises |-> <<>>, callers |-> [c \in Procs |-> CallerIdle] ]

\* the run of a promise has started and the promise has not settled
InFlight(pr) == pr.settled \in {"pending", "thrown"}

\* lines 65-77 as called at db.ts:8: start a run when initPromise is null (the
\* first db.prepare(statement).run() is issued before the call returns), return
\* initPromise; the caller awaits it
EnsureSchema(c, maxRequests) ==
  LET s == schema
      fresh == s.initPromise = 0
      proms == IF fresh THEN Append(s.promises, [settled |-> "pending", done |-> 0])
               ELSE s.promises
      p == IF fresh THEN Len(proms) ELSE s.initPromise
  IN  /\ s.callers[c].at = "idle"
      /\ s.callers[c].requests < maxRequests
      /\ schema' = [s EXCEPT !.initPromise = p, !.promises = proms,
                             !.callers[c] = [at |-> "await", promise |-> p,
                                             requests |-> @.requests + 1]]
      /\ UNCHANGED <<dbVars, now, env, pages, sync, an, hist, cron, slack>>

\* lines 68-70: the statement in flight completes, or the store rejects it and the
\* async function throws
SchemaStatement(ok) ==
  \E i \in 1..Len(schema.promises) :
    LET pr == schema.promises[i]
    IN  /\ pr.settled = "pending"
        /\ schema' = [schema EXCEPT !.promises[i] =
             IF ~ok THEN [pr EXCEPT !.settled = "thrown"]
             ELSE IF pr.done + 1 = SCHEMA_STATEMENTS
               THEN [pr EXCEPT !.settled = "fulfilled", !.done = @ + 1]
             ELSE [pr EXCEPT !.done = @ + 1]]
        /\ UNCHANGED <<dbVars, now, env, pages, sync, an, hist, cron, slack>>

\* mutant: the handler rethrows without clearing initPromise
SchemaCatchKeepsGuard ==
  \E i \in 1..Len(schema.promises) :
    /\ schema.promises[i].settled = "thrown"
    /\ schema' = [schema EXCEPT !.promises[i].settled = "rejected"]
    /\ UNCHANGED <<dbVars, now, env, pages, sync, an, hist, cron, slack>>

\* lines 71-74: the catch handler of a run that threw: initPromise = null; throw
SchemaCatch ==
  \E i \in 1..Len(schema.promises) :
    /\ schema.promises[i].settled = "thrown"
    /\ schema' = [schema EXCEPT !.initPromise = 0, !.promises[i].settled = "rejected"]
    /\ UNCHANGED <<dbVars, now, env, pages, sync, an, hist, cron, slack>>

\* db.ts:8-12: the awaited promise settled: the request goes on to next(), or the
\* middleware throws
WithDbResume(c) ==
  LET caller == schema.callers[c]
  IN  /\ caller.at = "await"
      /\ schema.promises[caller.promise].settled \in {"fulfilled", "rejected"}
      /\ schema' = [schema EXCEPT !.callers[c].at =
           IF schema.promises[caller.promise].settled = "fulfilled" THEN "next"
           ELSE "threw"]
      /\ UNCHANGED <<dbVars, now, env, pages, sync, an, hist, cron, slack>>

\* the request is over; the isolate serves the next one
RequestEnd(c) ==
  /\ schema.callers[c].at \in {"next", "threw"}
  /\ schema' = [schema EXCEPT !.callers[c].at = "idle", !.callers[c].promise = 0]
  /\ UNCHANGED <<dbVars, now, env, pages, sync, an, hist, cron, slack>>

----------------------------------------------------------------------------
(* Initial stores                                                          *)

\* the store right after schema creation, no invocation running
InitStore ==
  /\ entries = {}
  /\ segments = {}
  /\ segSeq = 0
  /\ analyses = {}
  /\ anSeq = 0
  /\ events = <<>>
  /\ syncState = [k \in SyncStateKeys |-> NullN]
  /\ now = Epoch0
  /\ env = EnvOn
  /\ hist = [passes |-> <<>>]
  /\ cron = [p \in Procs |-> CronIdle]
  /\ slack = <<>>
  /\ schema = SchemaIdle

Init ==
  /\ InitStore
  /\ pages \in TreePayloads \cup FlatPayloads \cup PagedPayloads
  /\ sync = [p \in Procs |-> SyncIdle]
  /\ an = [p \in Procs |-> AnIdle]

\* one sync pass over a reliable network and store
Next ==
  \/ \E fullRefresh \in BOOLEAN : SyncStart("A", fullRefresh, 1)
  \/ HttpAttempt("A", 200)
  \/ SyncUpsertEntry("A", FALSE)
  \/ SyncDeleteSegments("A", FALSE)
  \/ SyncInsertBatch("A", FALSE)
  \/ SyncSaveUpdated("A", FALSE)
  \/ SyncSaveSynced("A", FALSE)
  \/ SyncReturn("A")

Spec == Init /\ [][Next]_vars

----------------------------------------------------------------------------
(* Properties of one sync pass                                             *)

\* the pagination loop of invocation p has ended without an error
LoopEnded(p) == sync[p].pc \in {"saveUpdated", "saveSynced", "done"}

\* C3 as stated: the pass makes one fetchLifelogs call per page, the first without
\* a cursor and each later one with the nextCursor of the previous page, and the
\* response it stops after is the first whose nextCursor is absent or null.
C3_StopsAtFirstNullCursor ==
  \A p \in Procs :
    LET calls == sync[p].calls
    IN  /\ \A j \in 1..Len(calls) :
             /\ calls[j].cursor = IF j = 1 THEN UndefS ELSE pages[j - 1].nextCursor
             /\ j > 1 => pages[j - 1].nextCursor \notin {NullS, UndefS}
        /\ LoopEnded(p) => pages[Len(calls)].nextCursor \in {NullS, UndefS}

\* C3 amended: one fetchLifelogs call per page, the first without a cursor and each
\* later one with exactly the nextCursor of the previous page; the pass stops after
\* the first response whose nextCursor is absent, null or the empty string, and
\* cursors c1, c2, null give exactly 3 calls.
C3_PaginationTermination ==
  \A p \in Procs :
    LET calls == sync[p].calls
    IN  /\ \A j \in 1..Len(calls) :
             /\ calls[j].cursor = IF j = 1 THEN UndefS ELSE pages[j - 1].nextCursor
             /\ PageFor(pages, calls[j].cursor) = pages[j]
             /\ j > 1 => pages[j - 1].nextCursor \notin {NullS, UndefS, ""}
        /\ LoopEnded(p) => pages[Len(calls)].nextCursor \in {NullS, UndefS, ""}
        /\ ( /\ LoopEnded(p)
             /\ Len(pages) = 3
             /\ pages[1].nextCursor = "c1"
             /\ pages[2].nextCursor = "c2"
             /\ pages[3].nextCursor = NullS ) => Len(calls) = 3

\* a pass over cursors c1, c2, null has returned after its third call
C3_Witness ==
  /\ Len(pages) = 3
  /\ pages[1].nextCursor = "c1" /\ pages[2].nextCursor = "c2"
  /\ pages[3].nextCursor = NullS
  /\ sync["A"].pc = "done" /\ Len(sync["A"].calls) = 3

RECURSIVE NodeCount(_)
\* the number of nodes of a forest
NodeCount(forest) ==
  IF Len(forest) = 0 THEN 0
  ELSE 1 + NodeCount(forest[1].children) + NodeCount(Tail(forest))

RECURSIVE PathsOf(_)
\* the index paths (sibling indices from the root, 0-based) of a forest's nodes
PathsOf(forest) ==
  UNION { { <<k - 1>> } \cup { <<k - 1>> \o q : q \in PathsOf(forest[k].children) } :
          k \in 1..Len(forest) }

RECURSIVE NodeAt(_, _)
NodeAt(forest, path) ==
  IF Len(path) = 1 THEN forest[path[1] + 1]
  ELSE NodeAt(forest[path[1] + 1].children, Tail(path))

\* q comes before r in depth-first pre-order: an ancestor, or to the left
PreBefore(q, r) ==
  \/ Len(q) < Len(r) /\ SubSeq(r, 1, Len(q)) = q
  \/ \E d \in 1..Min(Len(q), Len(r)) :
       /\ SubSeq(q, 1, d - 1) = SubSeq(r, 1, d - 1)
       /\ q[d] < r[d]

\* the lifelog whose segments invocation p is replacing
CurrentLifelog(p) == sync[p].response.lifelogs[sync[p].i]

Replacing(p) == sync[p].pc \in {"delete", "insert"}

\* C6: the flattening of a content tree has one segment per node (empty text and
\* inner nodes included), in depth-first pre-order, with path the dot-joined sibling
\* indices and nodeId = entryId ":" path, all node ids distinct; a heading with one
\* paragraph child under "e1" gives "e1:0" then "e1:0.0".
C6_Flattening ==
  \A p \in Procs : Replacing(p) =>
    LET tree == CurrentLifelog(p).contents
        id == CurrentLifelog(p).id
        out == sync[p].segs
    IN  /\ Len(out) = NodeCount(tree)
        /\ \A k \in 1..Len(out) :
             \E q \in PathsOf(tree) :
               /\ Cardinality({ r \in PathsOf(tree) : PreBefore(r, q) }) = k - 1
               /\ out[k].path = JoinDot(q)
               /\ out[k].nodeId = id \o ":" \o out[k].path
               /\ out[k].entryId = id
               /\ out[k].content = NodeAt(tree, q).content
               /\ out[k].nodeType = NodeAt(tree, q).type
        /\ \A k, l \in 1..Len(out) : k # l => out[k].nodeId # out[l].nodeId
        /\ ( id = "e1" /\ tree = <<Node("heading", "", <<Node("p", "x", <<>>)>>)>> )
             => [k \in 1..Len(out) |-> out[k].nodeId] = <<"e1:0", "e1:0.0">>

\* the heading-with-one-paragraph tree of "e1" has been flattened
C6_Witness ==
  /\ Replacing("A")
  /\ CurrentLifelog("A").contents = <<Node("heading", "", <<Node("p", "x", <<>>)>>)>>
  /\ Len(sync["A"].segs) = 2
  /\ sync["A"].segs[1].content = ""

RECURSIVE Concat(_)
Concat(seqs) == IF Len(seqs) = 0 THEN <<>> ELSE seqs[1] \o Concat(Tail(seqs))

\* the segment inserts of the item invocation p works on have all been issued
InsertsDone(p) ==
  /\ sync[p].pc \notin {"idle", "fetch", "sleep", "upsert", "delete", "insert", "failed"}
       \/ (sync[p].pc \in {"fetch", "upsert"} /\ sync[p].processed > 0)
  /\ Len(sync[p].segs) > 0

\* C9: the segments of an entry are inserted in batches of at most 9 rows, all of
\* 9 rows except possibly the last, whose concatenation in order is the flattened
\* list; n segments take ceil(n/9) statements (25: 9, 9, 7) and no statement binds
\* more than 99 parameters.
C9_BatchSize ==
  \A p \in Procs :
    LET ins == sync[p].inserted
        n == Len(sync[p].segs)
    IN  /\ \A k \in 1..Len(ins) :
             /\ Len(ins[k]) >= 1 /\ Len(ins[k]) <= 9
             /\ k < Len(ins) => Len(ins[k]) = 9
             /\ \A m \in 1..Len(ins[k]) :
                  Len(ins[k]) * Cardinality(DOMAIN ins[k][m]) <= 99
        /\ sync[p].pc = "insert" => Concat(ins) = SubSeq(sync[p].segs, 1, 9 * Len(ins))
        /\ InsertsDone(p) =>
             /\ Concat(ins) = sync[p].segs
             /\ Len(ins) = (n + 8) \div 9
             /\ n = 25 => [k \in 1..Len(ins) |-> Len(ins[k])] = <<9, 9, 7>>

\* an entry of 25 segments has been inserted in batches of 9, 9 and 7 rows
C9_Witness ==
  /\ sync["A"].pc = "done"
  /\ Len(sync["A"].segs) = 25
  /\ [k \in 1..Len(sync["A"].inserted) |-> Len(sync["A"].inserted[k])] = <<9, 9, 7>>
  /\ Cardinality(segments) = 25

----------------------------------------------------------------------------
(* A sync pass over an unreliable network: the retry loop of fetchLifelogs *)

\* what one HTTP attempt may yield: a status code, or a transport error
Statuses == {200, 304, 400, 404, 429, 499, 500, 503, 599, TransportError}

TwoPages ==
  << [lifelogs |-> <<Lifelog("e1", Epoch0, Epoch0, Epoch0, <<Node("p", "x", <<>>)>>)>>,
      nextCursor |-> CursorTok(1)],
     [lifelogs |-> <<Lifelog("e2", Epoch0 + 1, Epoch0, Epoch0, <<Node("p", "x", <<>>)>>)>>,
      nextCursor |-> NullS] >>

InitFetch ==
  /\ InitStore
  /\ pages = TwoPages
  /\ sync = [p \in Procs |-> SyncIdle]
  /\ an = [p \in Procs |-> AnIdle]

NextFetch ==
  \/ SyncStart("A", FALSE, 1)
  \/ \E status \in Statuses : HttpAttempt("A", status)
  \/ FetchSleep("A")
  \/ SyncUpsertEntry("A", FALSE)
  \/ SyncDeleteSegments("A", FALSE)
  \/ SyncInsertBatch("A", FALSE)
  \/ SyncSaveUpdated("A", FALSE)
  \/ SyncSaveSynced("A", FALSE)
  \/ SyncReturn("A")

SpecFetch == InitFetch /\ [][NextFetch]_vars

\* the attempt failed in a way the retry policy covers: 5xx or a transport error
Transient(status) == status = TransportError \/ (status >= 500 /\ status < 600)

Is4xx(status) == status >= 400 /\ status < 500

\* C4: a fetchLifelogs call whose attempts all end in a 5xx status or a transport
\* error issues exactly 3 requests, never a 4th, and then fails with the error of
\* the last attempt; before the third request it is still retrying.
C4_RetryBound ==
  \A p \in Procs :
    LET h == sync[p].http
    IN  /\ Len(h) <= 3
        /\ (Len(h) >= 1 /\ \A k \in 1..Len(h) : Transient(h[k])) =>
             /\ Len(h) = 3 => sync[p].pc \in {"failed", "idle"}
                              /\ sync[p].error = AttemptError(h[3])
             /\ Len(h) < 3 => sync[p].pc \in {"sleep", "fetch"} /\ sync[p].error = ""
             /\ Len(sync[p].sleeps) \in {Len(h) - 1, Len(h)}
             /\ Len(sync[p].sleeps) <= 2

\* three attempts answered 503 and the error has left fetchLifelogs
C4_Witness ==
  /\ sync["A"].http = <<503, 503, 503>>
  /\ sync["A"].pc = "failed"
  /\ sync["A"].error = AttemptError(503)
  /\ Len(sync["A"].sleeps) = 2

\* C5: an attempt answered with a 4xx status is the last request of its
\* fetchLifelogs call: the call fails at once, without a sleep or a further request.
C5_ClientErrorTerminal ==
  \A p \in Procs :
    \A k \in 1..Len(sync[p].http) :
      Is4xx(sync[p].http[k]) =>
        /\ k = Len(sync[p].http)
        /\ sync[p].pc \in {"failed", "idle"}
        /\ Len(sync[p].sleeps) = k - 1


----------------------------------------------------------------------------
(* Two sync passes over the same provider payload                          *)

MaxItems == 2
MaxTicks == 2
MaxPasses == 2

\* lifelogs with all their timestamps or with none, with or without a content tree
ResyncLifelogs ==
  { Lifelog(id, t[1], t[2], t[3], c) :
      id \in {"e1", "e2"},
      t \in { <<Epoch0 + 1, Epoch0, Epoch0 + 1>>, <<UndefN, NullN, NullN>> },
      c \in { <<>>, <<Node("heading", "", <<Node("p", "x", <<>>)>>)>> } }

ResyncPayloads ==
  UNION { { << [lifelogs |-> ls, nextCursor |-> NullS] >> :
              ls \in [1..n -> ResyncLifelogs] } : n \in 1..MaxItems }

InitResync ==
  /\ InitStore
  /\ pages \in ResyncPayloads
  /\ sync = [p \in Procs |-> SyncIdle]
  /\ an = [p \in Procs |-> AnIdle]

\* the passes run one after the other while the clock advances
NextResync ==
  \/ \E fullRefresh \in BOOLEAN : SyncStart("A", fullRefresh, MaxPasses)
  \/ HttpAttempt("A", 200)
  \/ SyncUpsertEntry("A", FALSE)
  \/ SyncDeleteSegments("A", FALSE)
  \/ SyncInsertBatch("A", FALSE)
  \/ SyncSaveUpdated("A", FALSE)
  \/ SyncSaveSynced("A", FALSE)
  \/ SyncReturn("A")
  \/ Tick(Epoch0 + MaxTicks)

SpecResync == InitResync /\ [][NextResync]_vars

\* C1: a second sync pass over the same provider payload leaves the Entry rows and
\* the Segment rows (entry ids, node ids, field values) as the first pass left them,
\* with no node id stored twice
C1_IdempotentResync ==
  Len(hist.passes) >= 2 =>
    /\ hist.passes[2].entries = hist.passes[1].entries
    /\ hist.passes[2].segments = hist.passes[1].segments
    /\ hist.passes[2].segmentRows = hist.passes[1].segmentRows
    /\ hist.passes[2].segmentRows = Cardinality(hist.passes[2].segments)

\* the same, for payloads whose lifelogs all carry a timestamp
C1_IdempotentWhenStamped ==
  (\A k \in 1..Len(pages) : \A l \in 1..Len(pages[k].lifelogs) :
      pages[k].lifelogs[l].updatedAt # UndefN) => C1_IdempotentResync

----------------------------------------------------------------------------
(* One analysis invocation over a synced store                             *)

MaxEntries == 5

\* lifelog k of the analysed store: no content tree, start times all different
AnalysisLifelog(k) == Lifelog("e" \o ToString(k), Epoch0 + k, Epoch0 + k, Epoch0 + k, <<>>)

RECURSIVE SyncedEntries(_)
\* the Entry rows a sync pass leaves for the lifelogs 1..n
SyncedEntries(n) ==
  IF n = 0 THEN {}
  ELSE UpsertEntry(SyncedEntries(n - 1), EntryWithHash(AnalysisLifelog(n), Epoch0), Epoch0)

Str(text) == [chunks |-> <<text>>, kind |-> "string"]

\* what env.AI.run returns: bare JSON, JSON inside prose, prose, prose that quotes
\* the digits 1031, an envelope, chunks that join to JSON, an object with no text
Responses ==
  { Str(<<"{", "k", "}">>), Str(<<"p", "{", "k", "}", "p">>), Str(<<"p">>),
    Str(<<"p", "1031">>),
    [chunks |-> << <<"{", "k", "}">> >>, kind |-> "response"],
    [chunks |-> << <<"{">>, <<"k", "}">> >>, kind |-> "output_text"],
    [chunks |-> <<>>, kind |-> "other"] }

Returned(result) == [result |-> result, throws |-> FALSE, message |-> <<>>]
Thrown(message) == [result |-> Str(<<>>), throws |-> TRUE, message |-> message]

AiOutcomes ==
  { Returned(r) : r \in Responses } \cup { Thrown(RateLimitMessage), Thrown(OtherMessage) }

\* what the secondary provider yields: nothing, JSON, prose
GeminiTexts == { <<>>, <<"{", "k", "}">>, <<"p">> }

Envs ==
  { EnvOn, [EnvOn EXCEPT !.GEMINI_API_KEY = UndefS],
    [EnvOn EXCEPT !.DISABLE_WORKERS_AI = "1"], [EnvOn EXCEPT !.AI = FALSE] }

\* a synced store whose lifelogs have no content tree, no invocation running
InitAnalyzeStore ==
  /\ segments = {}
  /\ segSeq = 0
  /\ now = Epoch0
  /\ hist = [passes |-> <<>>]
  /\ cron = [p \in Procs |-> CronIdle]
  /\ slack = <<>>
  /\ schema = SchemaIdle
  /\ pages = << [lifelogs |-> <<>>, nextCursor |-> NullS] >>
  /\ sync = [p \in Procs |-> SyncIdle]
  /\ an = [p \in Procs |-> AnIdle]

\* nothing analysed yet
NeverAnalysed ==
  /\ analyses = {}
  /\ anSeq = 0
  /\ events = <<>>
  /\ syncState = [k \in SyncStateKeys |-> IF k = LAST_ANALYZED_KEY THEN NullN ELSE Epoch0]

InitAnalysis ==
  /\ InitAnalyzeStore
  /\ NeverAnalysed
  /\ entries = SyncedEntries(MaxEntries)
  /\ env \in Envs

\* the steps of analysis invocation q
AnalysisSteps(q) ==
  \/ \E o \in AiOutcomes : AnPrimary(q, o)
  \/ \E o \in AiOutcomes : AnRepair(q, o)
  \/ \E t \in GeminiTexts : AnSecondary(q, t)
  \/ AnUpsert(q)
  \/ AnStamp(q)
  \/ AnLogSuccess(q)
  \/ AnLogError(q)
  \/ AnSaveAnalyzed(q)
  \/ AnReturn(q)

NextAnalysis ==
  \/ \E limit \in 1..MaxEntries :
       AnStart("A", [entryIds |-> <<>>, force |-> FALSE, limit |-> limit], 1)
  \/ AnalysisSteps("A")

SpecAnalysis == InitAnalysis /\ [][NextAnalysis]_vars

\* the Analysis row of candidate k of invocation q
RowOf(q, k) == CHOOSE a \in analyses : a.entryId = an[q].cands[k].id /\ a.version = "v1"

\* the outcomes of the stages tried for the current candidate, in order
StageNames(q) == [k \in 1..Len(an[q].trail) |-> an[q].trail[k].stage]
StageParsed(q) == [k \in 1..Len(an[q].trail) |-> an[q].trail[k].parsed]

\* C7: the payload is accepted from the first stage of primary, repair, secondary
\* that yields parsable JSON; the secondary provider is tried only after the two
\* others failed; the stored model is "gemini-2.0-flash" when the secondary stage
\* produced the payload and the primary model's name otherwise
C7_ParseFallbackChain ==
  \A q \in Procs :
    /\ an[q].pc = "repair" =>
         StageNames(q) = <<"primary">> /\ StageParsed(q) = <<FALSE>>
    /\ an[q].pc = "secondary" =>
         StageNames(q) = <<"primary", "repair">> /\ StageParsed(q) = <<FALSE, FALSE>>
    /\ an[q].pc \in {"stamp", "logSuccess"} =>
         /\ \E a \in analyses : a.entryId = an[q].cands[an[q].i].id /\ a.version = "v1"
         /\ \/ /\ StageNames(q) = <<"primary">> /\ StageParsed(q) = <<TRUE>>
               /\ RowOf(q, an[q].i).model = "@cf/openai/gpt-oss-120b"
            \/ /\ StageNames(q) = <<"primary", "repair">>
               /\ StageParsed(q) = <<FALSE, TRUE>>
               /\ RowOf(q, an[q].i).model = "@cf/openai/gpt-oss-120b"
            \/ /\ StageNames(q) = <<"primary", "repair", "secondary">>
               /\ StageParsed(q) = <<FALSE, FALSE, TRUE>>
               /\ RowOf(q, an[q].i).model = "gemini-2.0-flash"
         /\ RowOf(q, an[q].i).insightsJson \in JsonDocs

\* a row was just stored from the secondary provider after both other stages failed
C7_Witness ==
  /\ an["A"].pc = "stamp"
  /\ StageParsed("A") = <<FALSE, FALSE, TRUE>>
  /\ RowOf("A", an["A"].i).model = "gemini-2.0-flash"

\* C8: once the inference call for candidate k has raised a rate-limit error, the
\* loop is over: the candidates before k that succeeded keep their rows and are
\* returned, candidate k and the later ones have no Analysis row and still need
\* analysis, and no later candidate received an inference call
C8_RateLimitShortCircuit ==
  \A q \in Procs :
    LET a == an[q]
        k == a.raisedAt
    IN  k > 0 =>
          /\ a.pc \in {"saveAnalyzed", "done", "idle"}
          /\ a.i = k
          /\ a.result = a.analyzedIds
          /\ \A j \in 1..(k - 1) :
               (\E m \in 1..Len(a.analyzedIds) : a.analyzedIds[m] = a.cands[j].id) <=>
                 \E r \in analyses : /\ r.entryId = a.cands[j].id
                                     /\ r.payloadHash = a.cands[j].summaryHash
          /\ \A j \in k..Len(a.cands) :
               /\ ~ \E r \in analyses : r.entryId = a.cands[j].id
               /\ \E e \in entries : e.id = a.cands[j].id /\ needsAnalysis(analyses, e)
               /\ \A m \in 1..Len(a.analyzedIds) : a.analyzedIds[m] # a.cands[j].id
               /\ j > k => a.cands[j].id \notin a.called

\* five candidates, the third is rate-limited: the first two are stored and returned
C8_Witness ==
  /\ Len(an["A"].cands) = 5
  /\ an["A"].raisedAt = 3
  /\ an["A"].pc = "done"
  /\ an["A"].result = <<an["A"].cands[1].id, an["A"].cands[2].id>>
  /\ Cardinality(analyses) = 2

\* the current candidate of invocation q
Candidate(q) == an[q].cands[an[q].i]

\* a stage of invocation q ends in this step with an exception: its call threw, or
\* no stage is left and ensureAnalysisJson threw
StageFails(q) ==
  /\ an[q].pc \in {"primary", "repair", "secondary"}
  /\ an'[q].pc \notin {"primary", "repair", "secondary", "upsert"}

\* the inference call of this step threw the provider's rate-limit error
RateLimited(q) == an'[q].raisedAt # an[q].raisedAt

\* the steps of invocation q after the failure of its candidate: nothing is stored
\* before the error event, the event is the only row written, the loop goes on
FailureIsLogged(q) ==
  /\ an'[q].pc = "logError"
  /\ an'[q].i = an[q].i
  /\ analyses' = analyses
  /\ events' = events

ErrorEventThenNext(q) ==
  /\ analyses' = analyses
  /\ entries' = entries
  /\ Len(events') = Len(events) + 1
  /\ SubSeq(events', 1, Len(events)) = events
  /\ events'[Len(events')].entryId = Candidate(q).id
  /\ events'[Len(events')].status = "error"
  /\ ~ \E r \in analyses' : r.entryId = Candidate(q).id
  /\ IF an[q].i < Len(an[q].cands)
       THEN an'[q].pc = "primary" /\ an'[q].i = an[q].i + 1
       ELSE an'[q].pc \in {"saveAnalyzed", "done"}

\* C11: when no stage yields parsable JSON for a candidate, or its inference call
\* throws an error other than the rate-limit error, no Analysis row is written for
\* the candidate, exactly one AnalysisEvent with status "error" is appended for it,
\* and the loop goes on with the next candidate
C11_FailureIsolation ==
  /\ [][ \A q \in Procs : (StageFails(q) /\ ~RateLimited(q)) => FailureIsLogged(q) ]_vars
  /\ [][ \A q \in Procs : (an[q].pc = "logError" /\ an'[q] # an[q]) =>
            ErrorEventThenNext(q) ]_vars

\* the same, for candidates whose last response does not quote the digits 1031
C11_FailureIsolationUnquoted ==
  /\ [][ \A q \in Procs :
            ( /\ StageFails(q)
              /\ ~RateLimited(q)
              /\ \A k \in 1..Len(an'[q].serialized) : an'[q].serialized[k] # "1031" )
            => FailureIsLogged(q) ]_vars
  /\ [][ \A q \in Procs : (an[q].pc = "logError" /\ an'[q] # an[q]) =>
            ErrorEventThenNext(q) ]_vars

\* stage k of the current candidate of invocation q returned a response that does
\* not parse
Unparsed(q, k) == ~an[q].trail[k].parsed /\ ~an[q].trail[k].threw

\* the stages run in the order primary, repair, secondary, each after responses
\* that did not parse only, and the repair call is made once, if and only if the
\* primary response does not parse
StagesInOrder(q) ==
  /\ StageNames(q) \in { <<>>, <<"primary">>, <<"primary", "repair">>,
                         <<"primary", "repair", "secondary">> }
  /\ \A k \in 1..(Len(an[q].trail) - 1) : Unparsed(q, k)
  /\ an[q].pc = "repair" => Len(an[q].trail) = 1 /\ Unparsed(q, 1)
  /\ an[q].pc = "secondary" => Len(an[q].trail) = 2 /\ Unparsed(q, 2)
  /\ (Len(an[q].trail) >= 1 /\ an[q].pc # "repair") =>
       (Len(an[q].trail) >= 2 <=> Unparsed(q, 1))

\* C20 as stated: the stages run in the fixed order primary, repair, secondary, each
\* only if every earlier stage failed to parse; one repair call is made if and only
\* if the primary response does not parse, the secondary provider is called if and
\* only if both the primary and the repair response do not parse, and no stage is
\* called after one has produced parsable JSON
C20_StageOrdering ==
  \A q \in Procs :
    /\ StagesInOrder(q)
    /\ (Len(an[q].trail) >= 2 /\ an[q].pc # "secondary") =>
         (Len(an[q].trail) = 3 <=> Unparsed(q, 2))

\* C20 amended: as stated, except that the secondary provider is called if and only
\* if both the primary and the repair response do not parse and a secondary API key
\* is configured
C20_StageOrderingWithKey ==
  \A q \in Procs :
    /\ StagesInOrder(q)
    /\ (Len(an[q].trail) >= 2 /\ an[q].pc # "secondary") =>
         (Len(an[q].trail) = 3 <=> (Unparsed(q, 2) /\ env.GEMINI_API_KEY # UndefS))

\* all three stages were called for the second candidate and none parsed, after the
\* first candidate was accepted from its primary response
C20_Witness ==
  /\ an["A"].pc = "logError"
  /\ an["A"].i = 2
  /\ an["A"].analyzedIds = <<an["A"].cands[1].id>>
  /\ StageNames("A") = <<"primary", "repair", "secondary">>
  /\ \A k \in 1..3 : Unparsed("A", k)

----------------------------------------------------------------------------
(* Sync passes and analysis invocations while the provider edits lifelogs  *)

MaxStale == 3
EditStep == 10

\* the limits of the callers that analyse after a sync pass: the background refresh
\* of ensureFreshData, the scheduled handler
REFRESH_LIMIT == 2
SCHEDULED_LIMIT == 3

\* syncLifelogs(db, env) of a handler that syncs, then analyses: round r begins
\* once round r - 1 is over
PipelineSync(p, maxRuns) ==
  /\ an[p].pc = "idle"
  /\ an[p].runs = sync[p].runs
  /\ SyncStart(p, FALSE, maxRuns)

\* .then(() => analyzeFreshEntries(db, env, {limit})) of the same handler
PipelineAnalyze(p, limit) ==
  /\ sync[p].pc = "idle"
  /\ an[p].runs < sync[p].runs
  /\ AnStart(p, [entryIds |-> <<>>, force |-> FALSE, limit |-> limit], sync[p].runs)

\* the provider's single page: the lifelogs 1..MaxStale
StalePages == << [lifelogs |-> [k \in 1..MaxStale |-> AnalysisLifelog(k)],
                  nextCursor |-> NullS] >>

\* lifelog k after the provider's edit: its updatedAt has moved on
EditedLifelog(k) == [AnalysisLifelog(k) EXCEPT !.updatedAt = @ + EditStep]

\* the provider edits lifelog k once (the latest lifelog is the one still changing)
ProviderEdit(k) ==
  /\ pages[1].lifelogs[k] = AnalysisLifelog(k)
  /\ pages' = [pages EXCEPT ![1].lifelogs[k] = EditedLifelog(k)]
  /\ UNCHANGED <<dbVars, now, env, sync, an, hist, cron, slack, schema>>

\* inference answers with JSON or fails
PlainOutcomes == { Returned(Str(<<"{", "k", "}">>)), Thrown(OtherMessage) }

InitStale ==
  /\ InitStore
  /\ pages = StalePages
  /\ sync = [p \in Procs |-> SyncIdle]
  /\ an = [p \in Procs |-> AnIdle]

NextStale ==
  \/ PipelineSync("A", MaxPasses)
  \/ HttpAttempt("A", 200)
  \/ SyncUpsertEntry("A", FALSE)
  \/ SyncSaveUpdated("A", FALSE)
  \/ SyncSaveSynced("A", FALSE)
  \/ SyncReturn("A")
  \/ ProviderEdit(MaxStale)
  \/ \E limit \in {REFRESH_LIMIT, SCHEDULED_LIMIT} : PipelineAnalyze("A", limit)
  \/ \E o \in PlainOutcomes : AnPrimary("A", o)
  \/ AnUpsert("A")
  \/ AnStamp("A")
  \/ AnLogSuccess("A")
  \/ AnLogError("A")
  \/ AnSaveAnalyzed("A")
  \/ AnReturn("A")

SpecStale == InitStale /\ [][NextStale]_vars

\* the entry has no Analysis row of the current version, or its row carries a
\* fingerprint other than the entry's
Stale(e) ==
  \/ ~ \E a \in analyses : a.entryId = e.id /\ a.version = "v1"
  \/ \E a \in analyses : a.entryId = e.id /\ a.version = "v1"
                         /\ a.payloadHash # e.summaryHash

\* invocation q runs its candidate query, without an id list, in this step
Selects(q) ==
  /\ an[q].pc = "idle"
  /\ an'[q].pc # "idle"
  /\ env.AI /\ env.DISABLE_WORKERS_AI # "1"
  /\ ScopedEntryIds(an'[q].opts.entryIds) = {}

\* the ids the query of invocation q returned
Selected(q) == { an'[q].cands[k].id : k \in 1..Len(an'[q].cands) }

\* C2: without an id list the selector returns an entry if and only if it has no
\* Analysis row of the current version or its row's fingerprint differs from the
\* entry's fingerprint
C2_StalenessGating ==
  [][ \A q \in Procs : Selects(q) =>
        \A e \in entries : e.id \in Selected(q) <=> Stale(e) ]_vars

\* C2, within the limit: the selector returns stale entries only, all of them when
\* at most `limit` are stale and otherwise the `limit` latest by start time
C2_StalenessGatingWithinLimit ==
  [][ \A q \in Procs : Selects(q) =>
        LET stale == { e \in entries : Stale(e) }
        IN  /\ Selected(q) \subseteq { e.id : e \in stale }
            /\ Cardinality(Selected(q)) = Min(an'[q].opts.limit, Cardinality(stale))
            /\ Len(an'[q].cands) = Cardinality(Selected(q))
            /\ \A e \in stale : e.id \notin Selected(q) =>
                 \A k \in 1..Len(an'[q].cands) : an'[q].cands[k].startTime >= e.startTime
      ]_vars

\* a query has just returned an entry whose row is pinned to an older fingerprint
\* and left out an entry whose row is pinned to its current fingerprint
C2_Witness ==
  /\ an["A"].pc = "primary"
  /\ an["A"].i = 1
  /\ \E k \in 1..Len(an["A"].cands) : \E a \in analyses : \E e \in entries :
       /\ a.entryId = an["A"].cands[k].id
       /\ e.id = a.entryId
       /\ a.payloadHash # e.summaryHash
  /\ \E e \in entries : \E a \in analyses :
       /\ a.entryId = e.id
       /\ a.payloadHash = e.summaryHash
       /\ \A k \in 1..Len(an["A"].cands) : an["A"].cands[k].id # e.id

----------------------------------------------------------------------------
(* Two analysis invocations at once, and a sync pass                       *)

MaxRace == 2

\* inference answers with JSON, with an object that carries no text, with prose
RaceOutcomes ==
  { Returned(Str(<<"{", "k", "}">>)), Returned([chunks |-> <<>>, kind |-> "other"]),
    Returned(Str(<<"p">>)) }

\* what the callers pass: the default limit, POST /api/analyze/:entryId
RaceOptions ==
  { [entryIds |-> <<>>, force |-> FALSE, limit |-> 2],
    [entryIds |-> <<"e1">>, force |-> TRUE, limit |-> 2] }

\* the store after lifelog 1 was synced and analysed, then edited and synced again
AnalysedThenEdited ==
  /\ entries = { IF e.id = "e1" THEN [e EXCEPT !.lastAnalyzedAt = Epoch0] ELSE e :
                   e \in UpsertEntry(SyncedEntries(MaxRace),
                                     EntryWithHash(EditedLifelog(1), Epoch0), Epoch0) }
  /\ analyses = UpsertAnalysis({}, "e1", MODEL, toSha1(lifelogHashSeed(AnalysisLifelog(1))),
                               <<"{", "k", "}">>, Epoch0, 0)
  /\ anSeq = 1
  /\ events = logAnalysisEvent(<<>>, "e1", "success", <<"Analysis stored", MODEL>>)
  /\ syncState = [k \in SyncStateKeys |-> Epoch0]

InitRace ==
  /\ InitAnalyzeStore
  /\ env = EnvOn
  /\ \/ NeverAnalysed /\ entries = SyncedEntries(MaxRace)
     \/ AnalysedThenEdited

NextRace ==
  \/ \E q \in Procs : \E opts \in RaceOptions : AnStart(q, opts, 1)
  \/ \E q \in Procs : \E o \in RaceOutcomes : AnPrimary(q, o)
  \/ \E q \in Procs : \E o \in RaceOutcomes : AnRepair(q, o)
  \/ \E q \in Procs : \E t \in GeminiTexts : AnSecondary(q, t)
  \/ \E q \in Procs : AnUpsert(q)
  \/ \E q \in Procs : AnStamp(q)
  \/ \E q \in Procs : AnLogSuccess(q)
  \/ \E q \in Procs : AnLogError(q)
  \/ \E q \in Procs : AnSaveAnalyzed(q)
  \/ \E q \in Procs : AnReturn(q)

SpecRace == InitRace /\ [][NextRace]_vars

\* invocation q stores the Analysis row of its current candidate in this step
Stores(q) == an[q].pc = "upsert" /\ an'[q].pc = "stamp"

\* the rows of an entry in a table of Analysis rows
RowsFor(tbl, entryId) == { a \in tbl : a.entryId = entryId /\ a.version = "v1" }

\* C10: under any interleaving of analysis invocations no (entry id, version) pair
\* has two Analysis rows; storing an analysis for a pair that has a row overwrites
\* that row's model, payload hash and payload and adds no row
C10_OneRowPerEntryVersion ==
  /\ [](\A a, b \in analyses : a.entryId = b.entryId /\ a.version = b.version => a = b)
  /\ [][ \A q \in Procs : Stores(q) =>
           LET c == an[q].cands[an[q].i]
           IN  /\ Cardinality(RowsFor(analyses', c.id)) = 1
               /\ \A r \in RowsFor(analyses', c.id) :
                    /\ r.model = an[q].modelUsed
                    /\ r.payloadHash = c.summaryHash
                    /\ r.insightsJson = an[q].parsed
               /\ RowsFor(analyses, c.id) # {} =>
                    /\ Cardinality(analyses') = Cardinality(analyses)
                    /\ \A r \in RowsFor(analyses', c.id) :
                         \A o \in RowsFor(analyses, c.id) : r.id = o.id
               /\ \A r \in analyses : r.entryId # c.id => r \in analyses' ]_vars

\* the row of e1, stored by an earlier invocation, has just been overwritten in
\* place with another model and payload hash
C10_Witness ==
  /\ Len(events) >= 1 /\ events[1].entryId = "e1"
  /\ \E q \in Procs : an[q].pc = "stamp" /\ an[q].cands[an[q].i].id = "e1"
  /\ Cardinality(RowsFor(analyses, "e1")) = 1
  /\ \A r \in RowsFor(analyses, "e1") :
       /\ r.model = "gemini-2.0-flash"
       /\ r.payloadHash = toSha1(lifelogHashSeed(EditedLifelog(1)))
       /\ r.id = 1

----------------------------------------------------------------------------
(* Analysis of listed entries: POST /api/analyze/:entryId and its options  *)

MaxScoped == 3

\* the Analysis row an earlier invocation left for lifelog k: pinned to the entry's
\* fingerprint ("current") or to the fingerprint of another version ("other")
EarlierRow(k, pin) ==
  UpsertAnalysis({}, "e" \o ToString(k), MODEL,
                 toSha1(lifelogHashSeed(IF pin = "current" THEN AnalysisLifelog(k)
                                        ELSE EditedLifelog(k))),
                 <<"{", "k", "}">>, Epoch0, k - 1)

\* the ids a caller may list: entries of the store, an unknown id, a blank id
ListableIds == { "e" \o ToString(k) : k \in 1..MaxScoped } \cup {"e0", " "}

IdLists == { <<x>> : x \in ListableIds } \cup { <<x, y>> : x, y \in ListableIds }

ScopedOptions ==
  { [entryIds |-> ids, force |-> f, limit |-> 2] : ids \in IdLists, f \in BOOLEAN }

InitScoped ==
  /\ InitAnalyzeStore
  /\ env = EnvOn
  /\ entries = SyncedEntries(MaxScoped)
  /\ \E pins \in [1..MaxScoped -> {"none", "current", "other"}] :
       analyses = UNION { IF pins[k] = "none" THEN {} ELSE EarlierRow(k, pins[k]) :
                          k \in 1..MaxScoped }
  /\ anSeq = MaxScoped
  /\ events = <<>>
  /\ syncState = [k \in SyncStateKeys |-> Epoch0]

NextScoped ==
  \/ \E opts \in ScopedOptions : AnStart("A", opts, 1)
  \/ \E o \in PlainOutcomes : AnPrimary("A", o)
  \/ AnUpsert("A")
  \/ AnStamp("A")
  \/ AnLogSuccess("A")
  \/ AnLogError("A")
  \/ AnSaveAnalyzed("A")
  \/ AnReturn("A")

SpecScoped == InitScoped /\ [][NextScoped]_vars

\* invocation q runs its candidate query in this step, called with an id list
QueriesList(q) ==
  /\ an[q].pc = "idle"
  /\ an'[q].pc # "idle"
  /\ env.AI /\ env.DISABLE_WORKERS_AI # "1"
  /\ Len(an'[q].opts.entryIds) > 0

\* the ids of the list, the ids of the list that are not blank
Listed(q) == { an'[q].opts.entryIds[k] : k \in 1..Len(an'[q].opts.entryIds) }
ListedNonBlank(q) == Listed(q) \ {"", " "}

ExistingIds == { e.id : e \in entries }
StaleIds == { e.id : e \in { x \in entries : Stale(x) } }

\* C12 as stated: with an id list and force = true every listed entry that exists
\* is selected, whatever its Analysis row and payload hash; with an id list and
\* force = false only listed entries that satisfy the staleness filter are selected
C12_ForceBypass ==
  [][ \A q \in Procs : QueriesList(q) =>
        IF an'[q].opts.force
          THEN Listed(q) \cap ExistingIds \subseteq Selected(q)
          ELSE Selected(q) \subseteq Listed(q) \cap StaleIds ]_vars

\* C12 amended: with an id list that holds a non-blank id, force = true selects
\* exactly the listed entries that exist and force = false exactly the listed
\* entries that exist and are stale, each once; a list of blank ids only is
\* handled as no list: the `limit` latest stale entries are selected
C12_ForceBypassNonBlank ==
  [][ \A q \in Procs : QueriesList(q) =>
        /\ Len(an'[q].cands) = Cardinality(Selected(q))
        /\ IF ListedNonBlank(q) = {}
             THEN /\ Selected(q) \subseteq StaleIds
                  /\ Cardinality(Selected(q)) =
                       Min(an'[q].opts.limit, Cardinality(StaleIds))
             ELSE IF an'[q].opts.force
               THEN Selected(q) = Listed(q) \cap ExistingIds
               ELSE Selected(q) = Listed(q) \cap StaleIds ]_vars

\* a forced query has just selected e1 although its row is pinned to its current
\* fingerprint, and did not select the unlisted stale entry e2
C12_Witness ==
  /\ an["A"].pc = "primary"
  /\ an["A"].opts.force
  /\ an["A"].opts.entryIds = <<"e1", "e0">>
  /\ Len(an["A"].cands) = 1
  /\ an["A"].cands[1].id = "e1"
  /\ \E a \in analyses : a.entryId = "e1" /\ a.payloadHash = an["A"].cands[1].summaryHash
  /\ ~ \E a \in analyses : a.entryId = "e2"

----------------------------------------------------------------------------
(* Sync passes over an entry whose content tree the provider rewrites      *)

MaxRetree == 2

\* the content trees the provider may serve for the entry
RetreeForests == UNION { ForestsOf(n) : n \in 0..MaxRetree }

\* the provider replaces the content tree of its lifelog
ProviderRetree(f) ==
  /\ pages[1].lifelogs[1].contents # f
  /\ pages' = [pages EXCEPT ![1].lifelogs[1].contents = f]
  /\ UNCHANGED <<dbVars, now, env, sync, an, hist, cron, slack, schema>>

InitReplace ==
  /\ InitStore
  /\ pages \in OnePage({ Lifelog("e1", Epoch0, Epoch0, Epoch0, f) : f \in RetreeForests })
  /\ sync = [p \in Procs |-> SyncIdle]
  /\ an = [p \in Procs |-> AnIdle]

NextReplace ==
  \/ SyncStart("A", FALSE, MaxPasses)
  \/ HttpAttempt("A", 200)
  \/ SyncUpsertEntry("A", FALSE)
  \/ SyncDeleteSegments("A", FALSE)
  \/ SyncInsertBatch("A", FALSE)
  \/ SyncSaveUpdated("A", FALSE)
  \/ SyncSaveSynced("A", FALSE)
  \/ SyncReturn("A")
  \/ \E f \in RetreeForests : ProviderRetree(f)

SpecReplace == InitReplace /\ [][NextReplace]_vars

\* invocation p finishes the item it works on in this step
ItemCompletes(p) ==
  /\ sync[p].pc \in {"upsert", "insert"}
  /\ sync'[p].processed = sync[p].processed + 1

\* the Segment rows of an entry in a table of segments
SegmentsOfEntry(tbl, entryId) == { r \in tbl : r.entryId = entryId }

\* after the step the stored segments of the item are the flattening of its tree
StoredIsFlattening(p) ==
  LET flat == lifelogToSegments(CurrentLifelog(p))
      rows == SegmentsOfEntry(segments', CurrentLifelog(p).id)
  IN  /\ { SegmentValues(r) : r \in rows } = { flat[k] : k \in 1..Len(flat) }
      /\ Cardinality(rows) = Len(flat)

\* C13: once a pass has processed entry e with content tree t, the stored segments
\* of e are exactly the flattening of t and no segment of an earlier tree remains,
\* also when t has fewer nodes or no nodes
C13_ReplaceNotMerge ==
  [][ \A p \in Procs : ItemCompletes(p) => StoredIsFlattening(p) ]_vars

\* the same, for content trees that have at least one node
C13_ReplaceWhenNonEmpty ==
  [][ \A p \in Procs :
        (ItemCompletes(p) /\ Len(CurrentLifelog(p).contents) > 0) =>
          StoredIsFlattening(p) ]_vars

----------------------------------------------------------------------------
(* Two sync passes at once over the same entry                             *)

MaxOverlap == 10

\* the lifelog both passes fetch: a flat transcript of n paragraphs
OverlapLifelog(n) == Lifelog("e1", Epoch0, Epoch0, Epoch0, FlatForest(n))

InitOverlap ==
  /\ InitStore
  /\ pages \in OnePage({ OverlapLifelog(n) : n \in 1..MaxOverlap })
  /\ sync = [p \in Procs |-> SyncIdle]
  /\ an = [p \in Procs |-> AnIdle]

\* the store statements of the two invocations interleave freely
NextOverlap ==
  \/ \E p \in Procs : SyncStart(p, FALSE, 1)
  \/ \E p \in Procs : HttpAttempt(p, 200)
  \/ \E p \in Procs : SyncUpsertEntry(p, FALSE)
  \/ \E p \in Procs : SyncDeleteSegments(p, FALSE)
  \/ \E p \in Procs : SyncInsertBatch(p, FALSE)
  \/ \E p \in Procs : SyncSaveUpdated(p, FALSE)
  \/ \E p \in Procs : SyncSaveSynced(p, FALSE)
  \/ \E p \in Procs : SyncReturn(p)

SpecOverlap == InitOverlap /\ [][NextOverlap]_vars

\* invocation p has run and is over
PassOver(p) == sync[p].runs = 1 /\ sync[p].pc \in {"done", "failed", "idle"}

\* the rows one pass alone writes for the lifelog of the page
AloneEntry == EntryWithHash(pages[1].lifelogs[1], Epoch0)
AloneSegments == lifelogToSegments(pages[1].lifelogs[1])

\* C14: under every interleaving of the store statements of two concurrent sync
\* passes over the same entry both passes complete without error, and the final
\* entry row and segment set are those of one pass alone, with no duplicated
\* segment and no mix
C14_ConcurrentSyncConverges ==
  /\ \A p \in Procs : sync[p].pc # "failed" /\ sync[p].error = ""
  /\ (\A p \in Procs : PassOver(p)) =>
       /\ \A e \in entries : \A f \in DOMAIN AloneEntry : e[f] = AloneEntry[f]
       /\ Cardinality(entries) = 1
       /\ { SegmentValues(r) : r \in segments } =
            { AloneSegments[k] : k \in 1..Len(AloneSegments) }
       /\ Cardinality(segments) = Len(AloneSegments)

\* the entry row, at least, converges: concurrent upserts leave one row with the
\* values of one pass alone
C14_EntryRowConverges ==
  (\A p \in Procs : PassOver(p)) =>
    /\ \A e \in entries : \A f \in DOMAIN AloneEntry : e[f] = AloneEntry[f]
    /\ Cardinality(entries) = 1

----------------------------------------------------------------------------
(* A sync pass over a store whose statements may fail                      *)

InitFaulty ==
  /\ InitStore
  /\ pages \in ResyncPayloads \cup {TwoPages}
  /\ sync = [p \in Procs |-> SyncIdle]
  /\ an = [p \in Procs |-> AnIdle]

\* each statement that persists an entry succeeds or is rejected by the store
NextFaulty ==
  \/ SyncStart("A", FALSE, 1)
  \/ HttpAttempt("A", 200)
  \/ \E fail \in BOOLEAN : SyncUpsertEntry("A", fail)
  \/ \E fail \in BOOLEAN : SyncDeleteSegments("A", fail)
  \/ \E fail \in BOOLEAN : SyncInsertBatch("A", fail)
  \/ SyncSaveUpdated("A", FALSE)
  \/ SyncSaveSynced("A", FALSE)
  \/ SyncReturn("A")

SpecFaulty == InitFaulty /\ [][NextFaulty]_vars

\* a statement that persists the current entry of invocation p fails in this step
PersistFails(p) ==
  /\ sync[p].pc \in {"upsert", "delete", "insert"}
  /\ sync[p].error = ""
  /\ sync'[p].error # ""

\* the pass is still running after the step: at its next item, its next page or
\* the statements that close the pass
PassGoesOn(p) == sync'[p].pc \in {"upsert", "fetch", "saveUpdated", "saveSynced"}

\* C15: a failure while persisting one entry (its upsert, its segment delete or a
\* segment batch insert) does not fail the pass: the pass goes on with the
\* remaining items and pages and returns its statistics
C15_EntryFailureIsolated ==
  /\ [][ \A p \in Procs : PersistFails(p) => PassGoesOn(p) ]_vars
  /\ [](\A p \in Procs : sync[p].pc # "failed")

----------------------------------------------------------------------------
(* Sync passes under every configuration, over pages with or without items *)

MaxAnchorPages == 2

\* the bindings of a deployment: sync enabled, disabled by the flag, the credential
\* set to 'skip', missing, empty
SyncEnvs ==
  { EnvOn, [EnvOn EXCEPT !.DISABLE_LIMITLESS_SYNC = "1"],
    [EnvOn EXCEPT !.LIMITLESS_API_KEY = "skip"],
    [EnvOn EXCEPT !.LIMITLESS_API_KEY = UndefS],
    [EnvOn EXCEPT !.LIMITLESS_API_KEY = ""] }

\* payloads of up to MaxAnchorPages pages, each with one lifelog or with none
AnchorPayloads ==
  UNION { { pgs \in [1..n -> UNION { PageChoices(i, n) : i \in 1..n }] :
              \A i \in 1..n : pgs[i] \in PageChoices(i, n) } : n \in 1..MaxAnchorPages }

InitPass ==
  /\ entries = {}
  /\ segments = {}
  /\ segSeq = 0
  /\ analyses = {}
  /\ anSeq = 0
  /\ events = <<>>
  /\ syncState = [k \in SyncStateKeys |-> NullN]
  /\ now = Epoch0
  /\ env \in SyncEnvs
  /\ hist = [passes |-> <<>>]
  /\ cron = [p \in Procs |-> CronIdle]
  /\ slack = <<>>
  /\ schema = SchemaIdle
  /\ pages \in AnchorPayloads
  /\ sync = [p \in Procs |-> SyncIdle]
  /\ an = [p \in Procs |-> AnIdle]

SpecPass == InitPass /\ [][NextResync]_vars

\* invocation p returns from a pass whose pagination loop ran
PassCompletes(p) ==
  /\ sync[p].pc # "done"
  /\ sync'[p].pc = "done"
  /\ sync'[p].attempted

\* C16: every sync pass whose pagination loop runs to completion writes a fresh
\* lifelog:lastSyncedAt value (the time of the write), also when every page of the
\* provider held zero items
C16_AnchorAlwaysWritten ==
  /\ [][ \A p \in Procs : PassCompletes(p) =>
            /\ sync[p].pc = "saveSynced"
            /\ syncState'[LAST_SYNC_KEY] = now ]_vars
  /\ [][ \A p \in Procs :
            (LoopEnded(p) /\ sync[p].attempted /\ sync'[p] # sync[p]) =>
              sync'[p].pc \in {"saveSynced", "done", "idle"} ]_vars
  /\ [](\A p \in Procs : (sync[p].pc = "done" /\ sync[p].attempted) =>
          /\ TruthyT(syncState[LAST_SYNC_KEY])
          /\ syncState[LAST_SYNC_KEY] <= now)

\* a second pass over two pages without items has just rewritten lastSyncedAt with
\* the current time; lastUpdatedAt was never written
C16_Witness ==
  /\ sync["A"].pc = "done"
  /\ sync["A"].runs = 2
  /\ sync["A"].processed = 0
  /\ Len(sync["A"].calls) = 2
  /\ syncState[LAST_SYNC_KEY] = now
  /\ now > Epoch0
  /\ syncState[LAST_UPDATED_KEY] = NullN
  /\ entries = {}

\* the disable flag is set or the provider credential is absent
SyncOff ==
  \/ env.DISABLE_LIMITLESS_SYNC = "1"
  \/ env.LIMITLESS_API_KEY \in {UndefS, NullS, ""}

\* C17: when the disable flag is set or the provider credential is absent,
\* syncLifelogs returns {processed: 0, lastUpdatedAt: null} without throwing, issues
\* no provider request and writes no entry, segment or SyncState row
C17_DisabledIsNoOp ==
  SyncOff =>
    /\ \A p \in Procs :
         /\ sync[p].pc \in {"idle", "done"}
         /\ sync[p].error = ""
         /\ sync[p].calls = <<>>
         /\ sync[p].http = <<>>
         /\ sync[p].result.processed = 0
         /\ sync[p].result.lastUpdatedAt = NullN
    /\ entries = {}
    /\ segments = {}
    /\ \A k \in SyncStateKeys : syncState[k] = NullN

\* with the disable flag set, a second invocation has returned the zero result
C17_Witness ==
  /\ env.DISABLE_LIMITLESS_SYNC = "1"
  /\ sync["A"].pc = "done"
  /\ sync["A"].runs = 2
  /\ sync["A"].result.processed = 0

----------------------------------------------------------------------------
(* Scheduled invocations: sync, the stale-sync alert, analysis.  A tick of  *)
(* the clock is one hour.                                                  *)

WARNING_INTERVAL_HOURS == 3
STALE_HOURS == 3

\* hoursSince(iso): null for a missing value, else the hours elapsed since then
hoursSince(iso, clock) == IF TruthyT(iso) THEN clock - iso ELSE NullN

\* mutant: an update that landed in this invocation does not suppress the alert
WarnDueIgnoringUpdate(lastUpdatedBefore, lastUpdatedAfter, lastWarningAt, clock) ==
  LET last == IF TruthyT(lastUpdatedAfter) THEN lastUpdatedAfter ELSE lastUpdatedBefore
  IN  /\ ~(TruthyT(lastWarningAt)
            /\ hoursSince(lastWarningAt, clock) < WARNING_INTERVAL_HOURS)
      /\ ~(TruthyT(last) /\ hoursSince(last, clock) < STALE_HOURS)

\* maybeWarnStaleSync, lines 665-674: none of the three early returns is taken
WarnDue(lastUpdatedBefore, lastUpdatedAfter, lastWarningAt, clock) ==
  LET last == IF TruthyT(lastUpdatedAfter) THEN lastUpdatedAfter ELSE lastUpdatedBefore
  IN  /\ ~(TruthyT(lastWarningAt)
            /\ hoursSince(lastWarningAt, clock) < WARNING_INTERVAL_HOURS)
      /\ ~(TruthyT(lastUpdatedAfter) /\ lastUpdatedAfter # lastUpdatedBefore)
      /\ ~(TruthyT(last) /\ hoursSince(last, clock) < STALE_HOURS)

\* line 588: the handler reads lifelog:lastUpdatedAt before it syncs
CronStart(p, maxRuns) ==
  /\ cron[p].pc = "idle"
  /\ cron[p].runs < maxRuns
  /\ cron' = [cron EXCEPT ![p] =
       [CronIdle EXCEPT !.pc = "sync", !.runs = cron[p].runs + 1,
                        !.lastUpdatedBefore =
                           getSyncStateValue(syncState, LAST_UPDATED_KEY)]]
  /\ UNCHANGED <<dbVars, now, env, pages, sync, an, hist, slack, schema>>

\* line 593: syncStats = await syncLifelogs(db, env)
CronSync(p) ==
  /\ cron[p].pc = "sync"
  /\ sync[p].runs < cron[p].runs
  /\ SyncStart(p, FALSE, cron[p].runs)

\* services/limitless.ts lines 36-46: the request of the pass fails (fetch rejects,
\* or the response is not ok) and fetchLifelogs throws; syncLifelogs does not catch
CronFetchThrows(p) ==
  /\ cron[p].pc = "sync"
  /\ sync[p].pc = "fetch"
  /\ sync' = [sync EXCEPT ![p] = SyncThrow(@, AttemptError(TransportError))]
  /\ UNCHANGED <<dbVars, now, env, pages, an, hist, cron, slack, schema>>

\* lines 593-599, 660: syncLifelogs returned its statistics, or threw and the
\* catch block left syncStats null, for which maybeWarnStaleSync returns at once
CronSynced(p) ==
  /\ cron[p].pc = "sync"
  /\ sync[p].runs = cron[p].runs
  /\ sync[p].pc \in {"done", "failed"}
  /\ cron' = [cron EXCEPT ![p] =
       [@ EXCEPT !.pc = IF sync[p].pc = "done" THEN "readAfter" ELSE "analyze",
                 !.stats = sync[p].pc = "done"]]
  \* the locals of the call that returned are gone
  /\ sync' = [sync EXCEPT ![p] = [SyncIdle EXCEPT !.runs = sync[p].runs]]
  /\ UNCHANGED <<dbVars, now, env, pages, an, hist, slack, schema>>

\* line 662: lastUpdatedAfter
CronReadAfter(p) ==
  /\ cron[p].pc = "readAfter"
  /\ cron' = [cron EXCEPT ![p] =
       [@ EXCEPT !.pc = "readWarning",
                 !.lastUpdatedAfter = getSyncStateValue(syncState, LAST_UPDATED_KEY)]]
  /\ UNCHANGED <<dbVars, now, env, pages, sync, an, hist, slack, schema>>

\* lines 664-685: lastWarningAt, then the checks
CronReadWarning(p) ==
  LET lastWarningAt == getSyncStateValue(syncState, LAST_SYNC_WARNING_KEY)
  IN  /\ cron[p].pc = "readWarning"
      /\ cron' = [cron EXCEPT ![p] =
           [@ EXCEPT !.pc = IF WarnDue(cron[p].lastUpdatedBefore,
                                       cron[p].lastUpdatedAfter, lastWarningAt, now)
                              THEN "post" ELSE "analyze",
                     !.lastWarningAt = lastWarningAt]]
      /\ UNCHANGED <<dbVars, now, env, pages, sync, an, hist, slack, schema>>

\* lines 680-691: postWarningToSlack; the post reaches the channel or postToSlack
\* returns false (no token, an HTTP error).  An alert is recorded with what line
\* 680 logs: the update time it reports and the warning time the invocation read
CronPost(p, delivered) ==
  LET last == IF TruthyT(cron[p].lastUpdatedAfter) THEN cron[p].lastUpdatedAfter
              ELSE cron[p].lastUpdatedBefore
  IN  /\ cron[p].pc = "post"
      /\ slack' = IF delivered
                     THEN Append(slack, [last |-> last,
                                         lastWarningAt |-> cron[p].lastWarningAt,
                                         at |-> now, by |-> p])
                     ELSE slack
      /\ cron' = [cron EXCEPT ![p] = [@ EXCEPT !.pc = "saveWarning"]]
      /\ UNCHANGED <<dbVars, now, env, pages, sync, an, hist, schema>>

\* line 693: lifelog:lastWarningAt = now
CronSaveWarning(p) ==
  /\ cron[p].pc = "saveWarning"
  /\ syncState' = upsertSyncState(syncState, LAST_SYNC_WARNING_KEY, now)
  /\ cron' = [cron EXCEPT ![p] = [@ EXCEPT !.pc = "analyze"]]
  /\ UNCHANGED <<entries, segments, segSeq, analyses, anSeq, events, now, env, pages,
                 sync, an, hist, slack, schema>>

\* lines 601-645: the analysis and the posts that follow it neither read nor write
\* lifelog:lastUpdatedAt and lifelog:lastWarningAt; the invocation is over
CronReturn(p) ==
  /\ cron[p].pc = "analyze"
  /\ cron' = [cron EXCEPT ![p] = [CronIdle EXCEPT !.runs = cron[p].runs]]
  /\ UNCHANGED <<dbVars, now, env, pages, sync, an, hist, slack, schema>>

MaxCronRuns == 1
MaxHours == 3
LastEditAge == 5

\* the provider's lifelog, last edited LastEditAge hours before the first invocation
CronLifelog == Lifelog("e1", Epoch0 - LastEditAge, Epoch0 - LastEditAge,
                       Epoch0 - LastEditAge, <<>>)

\* the provider has nothing, or one lifelog
CronPayloads ==
  { << [lifelogs |-> <<>>, nextCursor |-> NullS] >>,
    << [lifelogs |-> <<CronLifelog>>, nextCursor |-> NullS] >> }

\* the provider records something new, once: its lifelog is edited now
ProviderRecords ==
  /\ Len(pages[1].lifelogs) = 1
  /\ pages[1].lifelogs[1] = CronLifelog
  /\ pages' = [pages EXCEPT ![1].lifelogs[1].updatedAt = now]
  /\ UNCHANGED <<dbVars, now, env, sync, an, hist, cron, slack, schema>>

InitCron ==
  /\ InitStore
  /\ pages \in CronPayloads
  /\ sync = [p \in Procs |-> SyncIdle]
  /\ an = [p \in Procs |-> AnIdle]

\* scheduled invocations may overlap: instance A handles successive cron ticks,
\* instance B a tick that fires while A is still running
NextCron ==
  \/ CronStart("A", MaxCronRuns)
  \/ CronStart("B", 1)
  \/ \E p \in Procs : CronSync(p)
  \/ \E p \in Procs : HttpAttempt(p, 200)
  \/ \E p \in Procs : CronFetchThrows(p)
  \/ \E p \in Procs : SyncUpsertEntry(p, FALSE)
  \/ \E p \in Procs : SyncSaveUpdated(p, FALSE)
  \/ \E p \in Procs : SyncSaveSynced(p, FALSE)
  \/ \E p \in Procs : CronSynced(p)
  \/ \E p \in Procs : CronReadAfter(p)
  \/ \E p \in Procs : CronReadWarning(p)
  \/ \E p \in Procs : \E delivered \in BOOLEAN : CronPost(p, delivered)
  \/ \E p \in Procs : CronSaveWarning(p)
  \/ \E p \in Procs : CronReturn(p)
  \/ ProviderRecords
  \/ Tick(Epoch0 + MaxHours)

SpecCron == InitCron /\ [][NextCron]_vars

\* C18: once a stale-sync alert has been sent, no scheduled invocation sends
\* another one before 3 hours have passed, overlapping invocations included
C18_AlertRateLimit ==
  \A i, j \in 1..Len(slack) : i < j => slack[j].at - slack[i].at >= 3

\* an alert is sent 3 hours at least after the warning time that its invocation
\* read, or its invocation read none
C18_AlertAfterObservedWarning ==
  \A j \in 1..Len(slack) :
    \/ slack[j].lastWarningAt = NullN
    \/ slack[j].at - slack[j].lastWarningAt >= 3

\* invocation p delivers a stale-sync alert in this step
Alerts(p) ==
  /\ cron[p].pc = "post"
  /\ cron'[p].pc = "saveWarning"
  /\ Len(slack') = Len(slack) + 1

----------------------------------------------------------------------------
(* An analysis invocation while a sync pass runs and the provider edits    *)

MaxAmid == 2

\* the provider's single page: the lifelogs 1..MaxAmid
AmidPages == << [lifelogs |-> [k \in 1..MaxAmid |-> AnalysisLifelog(k)],
                 nextCursor |-> NullS] >>

\* the store after a first sync pass, nothing analysed yet
InitAmid ==
  /\ entries = SyncedEntries(MaxAmid)
  /\ NeverAnalysed
  /\ segments = {}
  /\ segSeq = 0
  /\ now = Epoch0
  /\ env = EnvOn
  /\ hist = [passes |-> <<>>]
  /\ cron = [p \in Procs |-> CronIdle]
  /\ slack = <<>>
  /\ schema = SchemaIdle
  /\ pages = AmidPages
  /\ sync = [p \in Procs |-> SyncIdle]
  /\ an = [p \in Procs |-> AnIdle]

\* sync passes of B and analysis invocations of A, their statements interleaved
NextAmid ==
  \/ SyncStart("B", FALSE, 1)
  \/ HttpAttempt("B", 200)
  \/ SyncUpsertEntry("B", FALSE)
  \/ SyncSaveUpdated("B", FALSE)
  \/ SyncSaveSynced("B", FALSE)
  \/ SyncReturn("B")
  \/ ProviderEdit(MaxAmid)
  \/ \E limit \in 1..MaxAmid :
       AnStart("A", [entryIds |-> <<>>, force |-> FALSE, limit |-> limit], MaxPasses)
  \/ \E o \in PlainOutcomes : AnPrimary("A", o)
  \/ AnUpsert("A")
  \/ AnStamp("A")
  \/ AnLogSuccess("A")
  \/ AnLogError("A")
  \/ AnSaveAnalyzed("A")
  \/ AnReturn("A")

SpecAmid == InitAmid /\ [][NextAmid]_vars

\* the candidate of invocation q that carries entry id `id`
CandidateWithId(q, id) ==
  CHOOSE c \in { an[q].cands[k] : k \in 1..Len(an[q].cands) } : c.id = id

\* invocation q pushes an id onto analyzedIds in this step
Pushes(q) == Len(an'[q].analyzedIds) = Len(an[q].analyzedIds) + 1

\* invocation q appends the success event of its current candidate in this step
LogsSuccess(q) ==
  /\ an[q].pc = "logSuccess"
  /\ Len(events') = Len(events) + 1
  /\ events'[Len(events')].status = "success"
  /\ events'[Len(events')].entryId = an[q].cands[an[q].i].id
  /\ an'[q].analyzedIds = Append(an[q].analyzedIds, an[q].cands[an[q].i].id)

\* C21: every id that analyzeFreshEntries returns has an Analysis row of the
\* current version pinned to the fingerprint the entry had when it was selected,
\* a stamped lastAnalyzedAt, and exactly one success event appended for it by
\* that invocation (an id is pushed in the step that appends its success event,
\* success events are appended in no other step, no id is returned twice)
C21_SuccessEffects ==
  /\ [](\A q \in Procs : an[q].pc = "done" =>
          \A k \in 1..Len(an[q].result) :
            LET id == an[q].result[k]
            IN  /\ \E c \in { an[q].cands[l] : l \in 1..Len(an[q].cands) } : c.id = id
                /\ \E a \in AnalysisRows(analyses, id) :
                     a.payloadHash = CandidateWithId(q, id).summaryHash
                /\ \E e \in entries : e.id = id /\ e.lastAnalyzedAt # NullN
                /\ \A l \in 1..Len(an[q].result) : l # k => an[q].result[l] # id)
  /\ [][ /\ \A q \in Procs : Pushes(q) <=> LogsSuccess(q)
         /\ (Len(events') > Len(events) /\ events'[Len(events')].status = "success")
              => \E q \in Procs : LogsSuccess(q) ]_vars

\* both entries were analysed and returned by one invocation while the sync pass
\* stored an edit of one of them
C21_Witness ==
  /\ an["A"].pc = "done"
  /\ Len(an["A"].result) = MaxAmid
  /\ \E e \in entries : \E a \in AnalysisRows(analyses, e.id) :
       /\ e.summaryHash # a.payloadHash
       /\ e.lastAnalyzedAt # NullN

----------------------------------------------------------------------------
(* Sync passes over pages of several items with different update times     *)

MaxCursorPages == 2
MaxCursorItems == 2

\* item j of page i: updated before the stored cursor value, or without an
\* updatedAt and ended after it (lifelogToEntry then takes the endTime)
CursorLifelogs(i, j) ==
  LET id == "e" \o ToString(MaxCursorItems * (i - 1) + j)
  IN  { Lifelog(id, Epoch0 - 1, Epoch0 - 1, Epoch0 - 1, <<>>),
        Lifelog(id, UndefN, Epoch0, Epoch0 + 1, <<>>) }

RECURSIVE CursorItems(_, _)
\* the item lists of length m of page i
CursorItems(i, m) ==
  IF m = 0 THEN { <<>> }
  ELSE { Append(ls, l) : ls \in CursorItems(i, m - 1), l \in CursorLifelogs(i, m) }

\* page i of n: up to MaxCursorItems items, and the cursor of page i + 1 if any
CursorPages(i, n) ==
  { [lifelogs |-> ls, nextCursor |-> IF i < n THEN CursorTok(i) ELSE NullS] :
      ls \in UNION { CursorItems(i, m) : m \in 0..MaxCursorItems } }

RECURSIVE CursorPrefixes(_, _)
\* the first k pages of a payload of n pages
CursorPrefixes(k, n) ==
  IF k = 0 THEN { <<>> }
  ELSE { Append(pgs, pg) : pgs \in CursorPrefixes(k - 1, n), pg \in CursorPages(k, n) }

CursorPayloads == UNION { CursorPrefixes(n, n) : n \in 1..MaxCursorPages }

\* no lifelog:lastUpdatedAt stored yet, or the one of an earlier pass
InitCursor ==
  /\ entries = {}
  /\ segments = {}
  /\ segSeq = 0
  /\ analyses = {}
  /\ anSeq = 0
  /\ events = <<>>
  /\ \E stored \in {NullN, Epoch0} :
       syncState = [k \in SyncStateKeys |-> IF k = LAST_UPDATED_KEY THEN stored ELSE NullN]
  /\ now = Epoch0
  /\ env = EnvOn
  /\ hist = [passes |-> <<>>]
  /\ cron = [p \in Procs |-> CronIdle]
  /\ slack = <<>>
  /\ schema = SchemaIdle
  /\ pages \in CursorPayloads
  /\ sync = [p \in Procs |-> SyncIdle]
  /\ an = [p \in Procs |-> AnIdle]

NextCursor ==
  \/ \E fullRefresh \in BOOLEAN : SyncStart("A", fullRefresh, 1)
  \/ HttpAttempt("A", 200)
  \/ SyncUpsertEntry("A", FALSE)
  \/ SyncSaveUpdated("A", FALSE)
  \/ SyncSaveSynced("A", FALSE)
  \/ SyncReturn("A")
  \/ Tick(Epoch0 + 1)

SpecCursor == InitCursor /\ [][NextCursor]_vars

\* the update timestamps of the items of all pages, as lifelogToEntry yields them
ItemStamps ==
  UNION { { lifelogToEntry(pages[i].lifelogs[j], now).updatedAt :
              j \in 1..Len(pages[i].lifelogs) } : i \in 1..Len(pages) }

\* the latest of a non-empty set of instants
Latest(stamps) == CHOOSE t \in stamps : \A u \in stamps : u <= t

\* C22: a pass that returned items persists, and returns in its statistics, the
\* maximum update timestamp over the items of all its pages; a pass that returned
\* no item leaves the stored lifelog:lastUpdatedAt as it was
C22_CursorTracking ==
  /\ [][ \A p \in Procs : PassCompletes(p) =>
            IF sync'[p].result.processed > 0
              THEN /\ sync'[p].result.lastUpdatedAt = Latest(ItemStamps)
                   /\ syncState'[LAST_UPDATED_KEY] = Latest(ItemStamps)
              ELSE sync'[p].result.lastUpdatedAt = NullN ]_vars
  /\ [][ syncState'[LAST_UPDATED_KEY] # syncState[LAST_UPDATED_KEY] =>
            \E p \in Procs : sync[p].pc = "saveUpdated" /\ sync[p].processed > 0 ]_vars

\* a pass over two pages has stored the update time of its first item, the only
\* one with that time: every item after it was updated earlier
C22_Witness ==
  /\ sync["A"].pc = "done"
  /\ Len(sync["A"].calls) = 2
  /\ sync["A"].result.processed = 4
  /\ lifelogToEntry(pages[1].lifelogs[1], now).updatedAt = Epoch0 + 1
  /\ \A i, j \in 1..2 : (i # 1 \/ j # 1) =>
       lifelogToEntry(pages[i].lifelogs[j], now).updatedAt = Epoch0 - 1
  /\ syncState[LAST_UPDATED_KEY] = Epoch0 + 1

\* invocation p passes its guards and issues its first page request in this step
Starts(p) == sync[p].pc = "idle" /\ sync'[p].pc = "fetch"

\* every page request of a pass carries the start bound of the first one
SameStartBound ==
  \A p \in Procs : \A j \in 1..Len(sync[p].calls) :
    sync[p].calls[j].start = sync[p].calls[1].start

----------------------------------------------------------------------------
(* Sync passes over an entry of two segment batches; an insert may fail    *)

MaxPartial == 10

\* the content trees the provider may serve: the full transcript, one paragraph,
\* nothing
PartialForests == { FlatForest(MaxPartial), FlatForest(1), FlatForest(0) }

InitPartial ==
  /\ InitStore
  /\ pages = << [lifelogs |-> << OverlapLifelog(MaxPartial) >>, nextCursor |-> NullS] >>
  /\ sync = [p \in Procs |-> SyncIdle]
  /\ an = [p \in Procs |-> AnIdle]

\* the provider rewrites the lifelog between two passes
RetreeBetweenPasses(f) == sync["A"].pc = "idle" /\ ProviderRetree(f)

NextPartial ==
  \/ SyncStart("A", FALSE, MaxPasses)
  \/ HttpAttempt("A", 200)
  \/ SyncUpsertEntry("A", FALSE)
  \/ SyncDeleteSegments("A", FALSE)
  \/ \E fail \in BOOLEAN : SyncInsertBatch("A", fail)
  \/ SyncSaveUpdated("A", FALSE)
  \/ SyncSaveSynced("A", FALSE)
  \/ SyncReturn("A")
  \/ \E f \in PartialForests : RetreeBetweenPasses(f)

SpecPartial == InitPartial /\ [][NextPartial]_vars

\* a batch insert of invocation p is rejected in this step
BatchFails(p) == sync[p].pc = "insert" /\ sync'[p].pc = "failed"

\* the stored segments of entry `id` are the batches that invocation p has inserted
PartialSetLeft(p, id) ==
  LET done == Concat(sync[p].inserted)
      rows == SegmentsOfEntry(segments', id)
  IN  /\ { SegmentValues(r) : r \in rows } = { done[k] : k \in 1..Len(done) }
      /\ Cardinality(rows) = Len(done)

\* the entry holds the first batch of a transcript whose second batch failed
FirstBatchOnly(id) ==
  Cardinality(SegmentsOfEntry(segments, id)) = SEGMENT_BATCH_SIZE

\* C24: a batch insert that fails leaves the entry with the batches inserted so
\* far, and the next pass that processes the entry without error leaves it with
\* the complete segment set of the lifelog it fetched
C24_PartialWindowCloses ==
  /\ [][ \A p \in Procs : BatchFails(p) => PartialSetLeft(p, CurrentLifelog(p).id) ]_vars
  /\ [][ \A p \in Procs :
           (ItemCompletes(p)
              /\ (sync[p].pc = "insert" \/ FirstBatchOnly(CurrentLifelog(p).id))) =>
             StoredIsFlattening(p) ]_vars

\* the same, when the next pass fetches the entry with at least one content node
C24_ClosesWhenNonEmpty ==
  /\ [][ \A p \in Procs : BatchFails(p) => PartialSetLeft(p, CurrentLifelog(p).id) ]_vars
  /\ [][ \A p \in Procs : (ItemCompletes(p) /\ sync[p].pc = "insert") =>
           StoredIsFlattening(p) ]_vars

\* the second pass has restored all the segments after the first pass had left
\* the first batch only
PartialRestored ==
  /\ sync["A"].runs = 2
  /\ sync["A"].pc = "done"
  /\ Len(sync["A"].inserted) = 2
  /\ Cardinality(segments) = MaxPartial
  /\ segSeq = SEGMENT_BATCH_SIZE + MaxPartial

----------------------------------------------------------------------------
(* Sync passes over an unreliable network and a store that may reject any  *)
(* statement                                                               *)

\* a request succeeds or meets a server error
FailingStatuses == {200, 503}

NextFailing ==
  \/ SyncStart("A", FALSE, MaxPasses)
  \/ \E status \in FailingStatuses : HttpAttempt("A", status)
  \/ FetchSleep("A")
  \/ \E fail \in BOOLEAN : SyncUpsertEntry("A", fail)
  \/ \E fail \in BOOLEAN : SyncDeleteSegments("A", fail)
  \/ \E fail \in BOOLEAN : SyncInsertBatch("A", fail)
  \/ \E fail \in BOOLEAN : SyncSaveUpdated("A", fail)
  \/ \E fail \in BOOLEAN : SyncSaveSynced("A", fail)
  \/ SyncReturn("A")
  \/ Tick(Epoch0 + 1)

SpecFailing == InitFetch /\ [][NextFailing]_vars

\* the error of a failed request or statement leaves syncLifelogs in this step
Throws(p) == sync[p].pc \notin {"failed", "idle"} /\ sync'[p].pc = "failed"

\* invocation p has executed upsertSyncState(LAST_UPDATED_KEY, ...) in this pass
WroteLastUpdated(p) == sync[p].pc = "saveSynced" /\ TruthyT(sync[p].lastUpdatedAt)

\* a SyncState row changes only in a statement of a pass that the store accepts
StateWrittenBySaves ==
  syncState' # syncState =>
    \E p \in Procs : /\ sync[p].pc \in {"saveUpdated", "saveSynced"}
                     /\ sync'[p].pc # "failed"

\* C26 as stated: a pass that throws (a request that failed for good, a rejected
\* statement) has written neither lifelog:lastUpdatedAt nor lifelog:lastSyncedAt,
\* and the throw leaves the stored entries, segments and SyncState as they are
C26_FailedPassKeepsState ==
  [][ /\ StateWrittenBySaves
      /\ \A p \in Procs : Throws(p) =>
           /\ ~WroteLastUpdated(p)
           /\ <<entries, segments, syncState>>' = <<entries, segments, syncState>>
    ]_vars

\* C26 amended: the same for every request and statement up to and including the
\* write of lifelog:lastUpdatedAt; when the write of lifelog:lastSyncedAt is the
\* one that is rejected, lifelog:lastSyncedAt keeps its value and
\* lifelog:lastUpdatedAt holds the value this pass has just written
C26_FailedPassKeepsAnchor ==
  [][ /\ StateWrittenBySaves
      /\ \A p \in Procs : Throws(p) =>
           /\ <<entries, segments, syncState>>' = <<entries, segments, syncState>>
           /\ WroteLastUpdated(p) =>
                /\ sync[p].pc = "saveSynced"
                /\ syncState[LAST_UPDATED_KEY] = sync[p].lastUpdatedAt
           /\ sync[p].pc # "saveSynced" => ~WroteLastUpdated(p)
    ]_vars

\* the second pass has thrown on its second page, after the clock moved on: both
\* entries are stored and the two SyncState values are those of the first pass
C26_Witness ==
  /\ sync["A"].pc = "failed"
  /\ sync["A"].runs = 2
  /\ Len(sync["A"].calls) = 2
  /\ sync["A"].processed = 1
  /\ now = Epoch0 + 1
  /\ syncState[LAST_SYNC_KEY] = Epoch0
  /\ syncState[LAST_UPDATED_KEY] = Epoch0 + 1
  /\ Cardinality(entries) = 2
  /\ Cardinality(segments) = 2

----------------------------------------------------------------------------
(* Repeated analysis invocations with a fixed limit, over entries of which *)
(* the newer ones fail at every attempt                                    *)

MaxStarve == 3
MaxStarveEvents == 4

\* inference returns JSON for the oldest entry and throws for every newer one
Parsable(id) == id = "e1"

\* the ways the inference of a newer entry fails: any error while the event log
\* is short, the provider's rate limit (which logs nothing) from then on
StarveFailures ==
  IF Len(events) < MaxStarveEvents
    THEN { Thrown(OtherMessage), Thrown(RateLimitMessage) }
    ELSE { Thrown(RateLimitMessage) }

\* the store after a sync pass, nothing analysed; the limit the caller passes at
\* every invocation is fixed from the start
InitStarve ==
  /\ entries = SyncedEntries(MaxStarve)
  /\ NeverAnalysed
  /\ segments = {}
  /\ segSeq = 0
  /\ now = Epoch0
  /\ env = EnvOn
  /\ hist = [passes |-> <<>>]
  /\ cron = [p \in Procs |-> CronIdle]
  /\ slack = <<>>
  /\ schema = SchemaIdle
  /\ pages = << [lifelogs |-> <<>>, nextCursor |-> NullS] >>
  /\ sync = [p \in Procs |-> SyncIdle]
  /\ \E limit \in 1..MaxStarve :
       an = [p \in Procs |-> [AnIdle EXCEPT !.opts = [entryIds |-> <<>>, force |-> FALSE,
                                                       limit |-> limit]]]

\* the next invocation of the caller, with the same options
StarveStart(q) ==
  /\ an[q].pc = "idle"
  /\ AnStart(q, an[q].opts, 1)

\* the inference call of the current candidate
StarvePrimary(q) ==
  /\ an[q].pc = "primary"
  /\ IF Parsable(an[q].cands[an[q].i].id)
       THEN AnPrimary(q, Returned(Str(<<"{", "k", "}">>)))
       ELSE \E o \in StarveFailures : AnPrimary(q, o)

\* the invocation has returned; the next one starts from a fresh context
StarveAgain(q) ==
  /\ an[q].pc = "done"
  /\ an' = [an EXCEPT ![q] = [AnIdle EXCEPT !.opts = an[q].opts]]
  /\ UNCHANGED <<dbVars, now, env, pages, sync, hist, cron, slack, schema>>

NextStarve ==
  \/ StarveStart("A")
  \/ StarvePrimary("A")
  \/ AnUpsert("A")
  \/ AnStamp("A")
  \/ AnLogSuccess("A")
  \/ AnLogError("A")
  \/ AnSaveAnalyzed("A")
  \/ StarveAgain("A")

SpecStarve == InitStarve /\ [][NextStarve]_vars

\* the invocations keep coming and each one runs to its end
SpecStarveFair == SpecStarve /\ WF_vars(NextStarve)

\* C27: every entry that needs analysis and whose inference returns parsable JSON
\* is eventually analysed, whatever the newer entries do
C27_NoStarvation ==
  \A k \in 1..MaxStarve :
    Parsable(AnalysisLifelog(k).id) => <>(AnalysisRows(analyses, AnalysisLifelog(k).id) # {})

----------------------------------------------------------------------------
(* What an Analysis row is built from                                      *)

\* extractResponsePayload found a text in the result (it returned before its last
\* line, the default)
HasText(result) ==
  \/ result.kind \in {"string", "response"}
  \/ result.kind \in {"output_text", "output"} /\ Len(result.chunks) > 0

\* C28: an Analysis row is written only after the text some call returned parsed as
\* JSON; a primary response with no extractable text does not go to the upsert but
\* to the repair call
C28_NoTextGoesToRepair ==
  [][\A o \in AiOutcomes :
       (AnPrimary("A", o) /\ ~o.throws /\ ~HasText(o.result))
         => an'["A"].pc = "repair"]_vars

\* the upsert is reached only with a parsed document, which is the document stored
C28_StoredOnlyIfParsed ==
  /\ [](an["A"].pc = "upsert" => an["A"].parsed # NoJson)
  /\ [][AnUpsert("A") =>
          \E r \in analyses' : /\ r.entryId = an["A"].cands[an["A"].i].id
                               /\ r.insightsJson = an["A"].parsed]_vars

\* a row holding the default document of a response without text
EmptyAnalysisStored ==
  \E r \in analyses : r.insightsJson = tryParseAnalysisJson(<<"{", "}">>)

----------------------------------------------------------------------------
(* The frame of a re-sync                                                  *)

\* the stored row of entry id
EntryRow(tbl, id) == CHOOSE r \in tbl : r.id = id

EntryIds(tbl) == { r.id : r \in tbl }

\* the step of pass p that upserts an entry whose id is already stored
Resyncs(p) ==
  /\ sync[p].pc = "upsert"
  /\ CurrentLifelog(p).id \in EntryIds(entries)
  /\ SyncUpsertEntry(p, FALSE)

\* C29: the upsert of an entry whose id exists overwrites the provider-derived
\* fields and the fingerprint, keeps lastAnalyzedAt and ingestedAt, keeps one
\* row per id, and changes no Analysis row and no AnalysisEvent row; no step of
\* a sync pass deletes an entry
C29_ResyncFrame ==
  /\ [][Resyncs("A") =>
          LET id == CurrentLifelog("A").id
              fetched == EntryWithHash(CurrentLifelog("A"), now)
              before == EntryRow(entries, id)
              after == EntryRow(entries', id)
          IN  /\ Cardinality({ r \in entries' : r.id = id }) = 1
              /\ after = [before EXCEPT
                            !.title = fetched.title, !.markdown = fetched.markdown,
                            !.startTime = fetched.startTime, !.endTime = fetched.endTime,
                            !.startEpochMs = fetched.startEpochMs,
                            !.endEpochMs = fetched.endEpochMs,
                            !.isStarred = fetched.isStarred,
                            !.updatedAt = fetched.updatedAt,
                            !.timezone = fetched.timezone,
                            !.summaryHash = fetched.summaryHash]
              /\ after.lastAnalyzedAt = before.lastAnalyzedAt
              /\ after.ingestedAt = before.ingestedAt
              /\ entries' \ {after} = entries \ {before}
              /\ analyses' = analyses
              /\ events' = events]_vars
  /\ [][sync' # sync => EntryIds(entries) \subseteq EntryIds(entries')]_vars

\* an analysed entry was fetched again after the provider edited it: it keeps its
\* analysis stamp and its row, and carries the new fingerprint
C29_Witness ==
  \E e \in entries :
    /\ e.lastAnalyzedAt # NullN
    /\ e.updatedAt = EditedLifelog(MaxStale).updatedAt
    /\ \E a \in analyses : a.entryId = e.id /\ a.payloadHash # e.summaryHash
    /\ \E k \in 1..Len(events) : events[k].entryId = e.id

----------------------------------------------------------------------------
(* Requests entering withDb in one isolate while the store may reject a    *)
(* schema statement                                                        *)

MaxRequests == 2

InitSchema ==
  /\ InitStore
  /\ pages = << [lifelogs |-> <<>>, nextCursor |-> NullS] >>
  /\ sync = [p \in Procs |-> SyncIdle]
  /\ an = [p \in Procs |-> AnIdle]

NextSchema ==
  \/ EnsureSchema("A", MaxRequests)
  \/ EnsureSchema("B", 1)
  \/ \E ok \in BOOLEAN : SchemaStatement(ok)
  \/ SchemaCatch
  \/ \E c \in Procs : WithDbResume(c)
  \/ \E c \in Procs : RequestEnd(c)

SpecSchema == InitSchema /\ [][NextSchema]_vars

\* the runs in flight
RunsInFlight == { i \in 1..Len(schema.promises) : InFlight(schema.promises[i]) }

\* a run is started in this step
StartsRun == Len(schema'.promises) > Len(schema.promises)

\* C30: at most one run is in flight; a call made while a run is in flight starts
\* none and awaits that run; no run is started once one has succeeded; once the
\* handler of a failed run has run, the guard is clear, the next call starts a new
\* run and awaits it, and nobody is handed the failed promise afterwards
C30_SchemaGuard ==
  /\ [](Cardinality(RunsInFlight) <= 1)
  /\ [](schema.initPromise # 0 =>
          schema.promises[schema.initPromise].settled # "rejected")
  /\ [][\A c \in Procs :
          (schema.callers[c].at = "idle" /\ schema'.callers[c].at = "await") =>
            LET joined == schema'.callers[c].promise
            IN  /\ StartsRun <=> (/\ RunsInFlight = {}
                                   /\ \A i \in 1..Len(schema.promises) :
                                        schema.promises[i].settled # "fulfilled")
                /\ RunsInFlight # {} => joined \in RunsInFlight
                /\ StartsRun => /\ joined = Len(schema'.promises)
                                /\ schema'.promises[joined].settled = "pending"
                /\ schema.promises # <<>>
                     /\ schema.promises[Len(schema.promises)].settled = "rejected"
                   => StartsRun]_vars
  /\ [][StartsRun => \A i \in 1..Len(schema.promises) :
                       schema.promises[i].settled = "rejected"]_vars

\* a run failed and threw for the request that started it; the next call started a
\* second run, a concurrent call joined it, and both wait for the one run in flight
C30_Witness ==
  /\ Len(schema.promises) = 2
  /\ schema.promises[1].settled = "rejected"
  /\ schema.promises[2].settled = "pending"
  /\ schema.promises[2].done > 0
  /\ \A c \in Procs : /\ schema.callers[c].at = "await"
                      /\ schema.callers[c].promise = 2

============================================================================
